---------------------------- MODULE Spec2Model ----------------------------
(***************************************************************************)
(* Model of the score-reconciliation engine of grading_civillaw_pss:       *)
(*   backend/app/services/grading_service.py  (leaf index, baseline,       *)
(*                                              merge)                     *)
(*   backend/app/services/llm_service.py      (judgment post-processing)   *)
(*   backend/app/main.py                      (grade_run)                  *)
(*                                                                         *)
(* Numbers.  Python floats are modelled exactly as integers counting       *)
(* 1/400 of a point (10 points = 4000).  Rubric points are drawn from      *)
(* multiples of 0.25, for which every product with 0.3, 0.5 and 0.7 and    *)
(* every rounding below is an integer number of units.                     *)
(*                                                                         *)
(* Optional values.  A value that may be absent (a missing dict key, or    *)
(* None) is a sequence of length 0 or 1: <<>> is absent, <<v>> is v.       *)
(*                                                                         *)
(* Strings.  A section id is a sequence of one-character strings, so that  *)
(* str.startswith is computed character by character.                      *)
(***************************************************************************)
EXTENDS Integers, Sequences, FiniteSets, TLC

VARIABLES
    rubric,        \* rubric["sections"]: the section list handed to grade_run
    pc,            \* position of grade_run
    heap,          \* the ScoreDetail dicts, by reference (index)
    base_result,   \* grade_basic's return value (score_details holds references)
    llm_results,   \* grade_with_gemini's return value
    final_result,  \* grade_run's final_result (score_details holds references)
    base0,         \* history: the baseline ScoreDetails as grade_basic returned them
    parsed0,       \* history: the reply item behind each entry of llm_results
    removed,       \* history: the section list before the last removal (leaf index study)
    lines,         \* the rubric text handed to parse_rubric_v2, line by line
    tables,        \* the table grids handed to parse_rubric, row by row
    answer,        \* StudentAnswer.answer_text, line by line
    chunks,        \* split_by_problem_headings' return value
    updated_answers, \* normalize_all_answers' counter updated, of the last run
    runs,          \* history: the runs of normalize_all_answers so far
    retries,       \* int(settings["LLM_RETRIES"])
    attempt,       \* grade_with_gemini's attempt counter of the batch
    calls          \* history: the generate_content calls made for the batch

\* the state of the stored answer and of the retry loop
answerVars == <<answer, chunks, updated_answers, runs>>
retryVars == <<retries, attempt, calls>>

vars == <<rubric, pc, heap, base_result, llm_results, final_result, base0, parsed0, removed,
          lines, tables, answerVars, retryVars>>

-----------------------------------------------------------------------------
(* Bounds of the model                                                     *)

\* longest rubric section list
MaxSections == 2

\* longest deduction list a judgment supplies
MaxDeductions == 2

\* longest section list of the leaf index study
MaxLeafSections == 3

\* lines of a rubric text
MaxLines == 4

\* the longest note, in tokens
MaxNoteLen == 3

\* lines of an uploaded answer text
MaxAnswerLines == 4

\* rows of the table grids handed to parse_rubric
MaxRows == 2

\* the largest LLM_RETRIES (the default is 2)
MaxRetries == 2

\* the longest evidence string, in characters
MaxEvidenceLen == 40

\* runs of normalize_all_answers
MaxRuns == 2

-----------------------------------------------------------------------------
(* Numbers                                                                 *)

\* units per point
Unit == 4 * 100

Min(a, b) == IF a <= b THEN a ELSE b

Max(a, b) == IF a >= b THEN a ELSE b

\* Python's round() of the exact quotient n/d, d > 0: to nearest, ties to even
PyRound(n, d) ==
    LET q == n \div d
        r == n % d
    IN  IF 2 * r < d THEN q
        ELSE IF 2 * r > d THEN q + 1
        ELSE IF q % 2 = 0 THEN q ELSE q + 1

\* _round_to_half: round(value * 2) / 2.0
RoundToHalf(value) == PyRound(2 * value, Unit) * (Unit \div 2)

\* round(x, 2) of the human note
Round2(value) == PyRound(100 * value, Unit) * (Unit \div 100)

RECURSIVE SumSeq(_)
SumSeq(s) == IF s = <<>> THEN 0 ELSE Head(s) + SumSeq(Tail(s))

\* the numerators of the ratios, over RatioDen
INCOMPLETE_CAP_RATIO == 3

EVIDENCE_FAIL_CAP_RATIO == 5

\* the 0.7 of grade_with_gemini's default penalty of an Incomplete judgment
INCOMPLETE_DEFAULT_PENALTY_RATIO == 7

RatioDen == 2 * 5

\* x * ratio, for a ratio given by its numerator over RatioDen
Times(x, ratio) == (x * ratio) \div RatioDen

-----------------------------------------------------------------------------
(* Section ids and the leaf index                                          *)

Dot == "."

\* str.startswith
StartsWith(s, prefix) ==
    /\ Len(prefix) <= Len(s)
    /\ SubSeq(s, 1, Len(prefix)) = prefix

\* faulty variant: the prefix test without the "." separator
IsLeafNoDot(section_id, all_sections) ==
    ~ \E i \in 1..Len(all_sections) :
        /\ all_sections[i].id # section_id
        /\ StartsWith(all_sections[i].id, section_id)

\* is_leaf_section
is_leaf_section(section_id, all_sections) ==
    ~ \E i \in 1..Len(all_sections) :
        /\ all_sections[i].id # section_id
        /\ StartsWith(all_sections[i].id, section_id \o <<Dot>>)

\* faulty variant: a section is a leaf when it has no points-bearing child
IsLeafScoredOnly(section_id, sections) ==
    ~ \E i \in 1..Len(sections) :
        /\ sections[i].id # section_id
        /\ sections[i].points # <<>>
        /\ StartsWith(sections[i].id, section_id \o <<Dot>>)

\* grade_basic.is_leaf, the closure over rubric["sections"]
is_leaf(section_id, sections) ==
    ~ \E i \in 1..Len(sections) :
        /\ sections[i].id # section_id
        /\ StartsWith(sections[i].id, section_id \o <<Dot>>)

\* faulty variant: every section with points > 0 is judged, parents included
IsRelevantScoredOnly(section, all_sections) ==
    section.points # <<>> /\ section.points[1] > 0

\* is_llm_relevant_section
is_llm_relevant_section(section, all_sections) ==
    IF section.points = <<>> \/ section.points[1] <= 0
    THEN FALSE
    ELSE is_leaf_section(section.id, all_sections)

\* _needs_llm: the subsumption marker occurs in title or content
needs_llm(section) == "subsumption" \in section.text

\* _is_conclusion_section: the conclusion marker occurs in title or content
is_conclusion_section(section) == "conclusion" \in section.text

-----------------------------------------------------------------------------
(* Baseline grading                                                        *)

\* the ScoreDetail dict grade_basic appends for a section with points
BaselineDetail(section, sections) ==
    [ section_id |-> section.id,
      max_points |-> section.points[1],
      score      |-> 0,
      deductions |-> <<>>,
      is_leaf    |-> is_leaf(section.id, sections),
      llm        |-> <<>> ]

\* calculate_final_score
calculate_final_score(score_details) ==
    LET leaf_details == SelectSeq(score_details, LAMBDA d : d.is_leaf)
    IN  [ total_score |-> SumSeq([k \in 1..Len(leaf_details) |-> leaf_details[k].score]),
          total_max   |-> SumSeq([k \in 1..Len(leaf_details) |-> leaf_details[k].max_points]) ]

\* the f-string of the human note: both totals rounded to two decimals
HumanNote(totals, llm_needed_sections) ==
    [ total_score |-> Round2(totals.total_score),
      total_max   |-> Round2(totals.total_max),
      llm_needed  |-> llm_needed_sections ]

\* faulty variant: a section with 0 points is skipped like one without points
BaselineDetailsPositiveOnly(sections) ==
    LET scored == SelectSeq(sections, LAMBDA s : s.points # <<>> /\ s.points[1] > 0)
    IN  [k \in 1..Len(scored) |-> BaselineDetail(scored[k], sections)]

\* grade_basic's loop: one ScoreDetail per section whose points is not None
BaselineDetails(sections) ==
    LET scored == SelectSeq(sections, LAMBDA s : s.points # <<>>)
    IN  [k \in 1..Len(scored) |-> BaselineDetail(scored[k], sections)]

\* grade_basic's llm_needed_sections
LlmNeededSections(sections) ==
    LET needed == SelectSeq(sections, LAMBDA s : s.points # <<>> /\ needs_llm(s))
    IN  [k \in 1..Len(needed) |-> needed[k].id]

\* the ScoreDetails a result refers to, read through the heap
Deref(h, result) == [k \in 1..Len(result.score_details) |-> h[result.score_details[k]]]

NoResult == [score_details |-> <<>>, is_ambiguous |-> FALSE,
             human_note |-> HumanNote([total_score |-> 0, total_max |-> 0], <<>>)]

\* grade_run up to and including base_result = grade_basic(rubric_data, ...)
GradeBasic ==
    /\ pc = "start"
    /\ LET score_details == BaselineDetails(rubric)
           llm_needed_sections == LlmNeededSections(rubric)
           refs == [k \in 1..Len(score_details) |-> Len(heap) + k]
       IN  /\ heap' = heap \o score_details
           /\ base0' = score_details
           /\ base_result' =
                [ score_details |-> refs,
                  is_ambiguous  |-> llm_needed_sections # <<>>,
                  human_note    |-> HumanNote(calculate_final_score(score_details),
                                              llm_needed_sections) ]
    /\ pc' = "graded"
    /\ UNCHANGED <<rubric, llm_results, final_result, parsed0, removed, lines, tables, answerVars, retryVars>>

\* grade_run with use_llm false: final_result = base_result
SkipLlm ==
    /\ pc = "graded"
    /\ final_result' = base_result
    /\ pc' = "done"
    /\ UNCHANGED <<rubric, heap, base_result, llm_results, base0, parsed0, removed, lines, tables, answerVars, retryVars>>

-----------------------------------------------------------------------------
(* Judgments                                                               *)
(*                                                                         *)
(* A parsed reply item is a record with a field kind.  A "dict" item has   *)
(* the optional fields of a judgment:                                      *)
(*   writing_status  <<>> or <<"Missing" | "Incomplete" | "Full">>         *)
(*   is_written      <<>> or <<"true" | "false" | "null">>                 *)
(*   score           <<>> or <<number>>                                    *)
(*   deductions      <<>> or <<list of [reason, penalty]>>                 *)
(*   is_ambiguous    <<>> or <<BOOLEAN>>                                   *)
(*   evidence        <<>> or <<list of evidence strings>>                  *)
(*   note            <<>> or <<tokens>>, see normalize_note_tone           *)
(*   score_json      what the "score" key holds when it is present:        *)
(*                   "number", "null" (None) or "text" (no float literal)  *)
(* An evidence string is [len, x, found]: its stripped length, whether it  *)
(* is the sentinel "X", and whether _evidence_in_student finds its first   *)
(* 25 characters in the student text.                                      *)

MIN_EVIDENCE_LEN_DEFAULT == 30

MIN_EVIDENCE_LEN_CONCLUSION == 10

\* the ev_text[:25] of _normalize_evidence
EVIDENCE_MAX_CHARS == 25

\* the evidence list ["X"]
SentinelEvidence == << [len |-> 1, x |-> TRUE, found |-> FALSE] >>

\* dict.get(key, default) of an optional field
Get(field, default) == IF field = <<>> THEN default ELSE field[1]

\* faulty variant: the evidence strings are kept at their full length
NormalizeEvidenceUntruncated(evidence) ==
    SelectSeq(evidence, LAMBDA ev : ev.len > 0 /\ ~ ev.x)

\* _normalize_evidence
normalize_evidence(evidence) ==
    LET kept == SelectSeq(evidence, LAMBDA ev : ev.len > 0 /\ ~ ev.x)
    IN  [k \in 1..Len(kept) |->
            [kept[k] EXCEPT !.len = Min(kept[k].len, EVIDENCE_MAX_CHARS)]]

\* _evidence_in_student
evidence_in_student(evidence) == \E k \in 1..Len(evidence) : evidence[k].found

\* A note is a sequence of tokens: "x" (text that is none of the others), "sp"
\* (white space), "." (one of . ? !), the sentence endings "da" and "imnida",
\* "doem" and "ham"; the empty sequence is the empty string.
RECURSIVE StripRight(_, _)
StripRight(text, tokens) ==
    IF text # <<>> /\ text[Len(text)] \in tokens
    THEN StripRight(SubSeq(text, 1, Len(text) - 1), tokens)
    ELSE text

RECURSIVE StripLeft(_, _)
StripLeft(text, tokens) ==
    IF text # <<>> /\ Head(text) \in tokens THEN StripLeft(Tail(text), tokens) ELSE text

\* str.strip()
Strip(text) == StripLeft(StripRight(text, {"sp"}), {"sp"})

\* re.sub(r"\s+", " ", text)
CollapseSpaces(text) ==
    LET keep == { n \in 1..Len(text) : ~ (text[n] = "sp" /\ n > 1 /\ text[n - 1] = "sp") }
        Nth(k) == CHOOSE n \in keep : Cardinality({ m \in keep : m <= n }) = k
    IN  [k \in 1..Cardinality(keep) |-> text[Nth(k)]]

\* re.sub(r"(입니다|됩니다|되었다|했다|하였다|다|요)$", "", text): one ending
StripEnding(text) ==
    IF text # <<>> /\ text[Len(text)] \in {"da", "imnida"}
    THEN SubSeq(text, 1, Len(text) - 1)
    ELSE text

\* faulty variant: the ending is appended without looking at the text
NoteToneAppendsAlways(note) ==
    IF Strip(Get(note, <<>>)) = <<>> THEN <<>>
    ELSE Strip(Get(note, <<>>)) \o <<"ham", ".">>

\* _normalize_note_tone
normalize_note_tone(note) ==
    LET text0 == Strip(Get(note, <<>>))
        text1 == Strip(CollapseSpaces(text0))
        text2 == Strip(StripRight(text1, {"."}))
        text3 == Strip(StripEnding(text2))
        text4 == IF text3 # <<>> /\ text3[Len(text3)] = "doem"
                 THEN SubSeq(text3, 1, Len(text3) - 1) \o <<"ham">>
                 ELSE IF text3 # <<>> /\ text3[Len(text3)] = "ham" THEN text3
                 ELSE text3 \o <<"ham">>
    IN  IF text0 = <<>> THEN <<>> ELSE text4 \o <<".">>

\* faulty variant: the entries without a positive penalty are kept, at penalty 0
NormalizedDeductionsKeepsZero(raw_deductions) ==
    [k \in 1..Len(raw_deductions) |->
        [ reason  |-> raw_deductions[k].reason,
          penalty |-> RoundToHalf(Max(0, raw_deductions[k].penalty)) ]]

\* the deductions loop of _normalize_deductions_and_score: penalties floored at 0
\* and rounded to the half point, entries without a positive penalty dropped
NormalizedDeductions(raw_deductions) ==
    LET rounded == [k \in 1..Len(raw_deductions) |->
                      [ reason  |-> raw_deductions[k].reason,
                        penalty |-> RoundToHalf(Max(0, raw_deductions[k].penalty)) ]]
    IN  SelectSeq(rounded, LAMBDA d : d.penalty > 0)

\* faulty variant: only the first deduction counts
PenaltySumFirstOnly(deductions) ==
    IF deductions = <<>> THEN 0 ELSE deductions[1].penalty

PenaltySum(deductions) == SumSeq([k \in 1..Len(deductions) |-> deductions[k].penalty])

\* lines 196-199: float(parsed.get("score", max_points) or 0) inside try/except:
\* an absent key reads max_points, None and unparsable text read 0
CoercedScore(parsed, max_points) ==
    IF parsed.score = <<>> THEN max_points
    ELSE IF parsed.score_json = "number" THEN parsed.score[1]
    ELSE 0

\* faulty variant: the Missing branch keeps the supplied score
NormalizeKeepsScoreWhenMissing(parsed, section, evidence_is_valid) ==
    LET max_points == RoundToHalf(Get(section.points, 0))
        llm_score  == RoundToHalf(Max(0, Min(max_points, CoercedScore(parsed, max_points))))
    IN  [parsed EXCEPT !.deductions = << NormalizedDeductions(Get(parsed.deductions, <<>>)) >>,
                       !.score = <<llm_score>>,
                       !.score_json = "number",
                       !.note = << normalize_note_tone(parsed.note) >>]

\* _normalize_deductions_and_score
normalize_deductions_and_score(parsed, section, evidence_is_valid) ==
    LET max_points     == RoundToHalf(Get(section.points, 0))
        writing_status == Get(parsed.writing_status, "Full")
        deductions     == NormalizedDeductions(Get(parsed.deductions, <<>>))
        llm_score      == RoundToHalf(Max(0, Min(max_points, CoercedScore(parsed, max_points))))
        missing        == writing_status = "Missing" \/ parsed.is_written = <<"false">>
        \* the branch of a written judgment, before the status caps
        total_penalty  == Min(RoundToHalf(PenaltySum(deductions)), max_points)
        score_from_penalty == RoundToHalf(Max(0, max_points - total_penalty))
        final0         == IF deductions # <<>>
                          THEN RoundToHalf(Min(llm_score, score_from_penalty))
                          ELSE llm_score
        synthesized    == RoundToHalf(Max(0, max_points - final0))
        deductions0    == IF deductions = <<>> /\ synthesized > 0
                          THEN << [reason |-> "criteria", penalty |-> synthesized] >>
                          ELSE deductions
        \* the status caps
        capped         == writing_status = "Incomplete" \/ ~ evidence_is_valid
        cap_reason     == IF writing_status = "Incomplete" THEN "incomplete" ELSE "evidence"
        score_cap      == IF writing_status = "Incomplete"
                          THEN RoundToHalf(Times(max_points, INCOMPLETE_CAP_RATIO))
                          ELSE RoundToHalf(Times(max_points, EVIDENCE_FAIL_CAP_RATIO))
        additional_penalty == RoundToHalf(final0 - score_cap)
        final1         == IF capped /\ final0 > score_cap THEN score_cap ELSE final0
        deductions1    == IF capped /\ final0 > score_cap /\ additional_penalty > 0
                          THEN Append(deductions0,
                                      [reason |-> cap_reason, penalty |-> additional_penalty])
                          ELSE deductions0
        not_written    == IF max_points > 0
                          THEN << [reason |-> "not_written", penalty |-> max_points] >>
                          ELSE <<>>
    IN  [parsed EXCEPT !.deductions = << IF missing THEN not_written ELSE deductions1 >>,
                       !.score = << IF missing THEN 0 ELSE final1 >>,
                       !.score_json = "number",
                       !.note = << normalize_note_tone(parsed.note) >>]

-----------------------------------------------------------------------------
(* grade_with_gemini: the post-processing of one reply item                *)

Dict(ws, iw, sc, ded, amb, ev, nt) ==
    [ kind |-> "dict", writing_status |-> ws, is_written |-> iw, score |-> sc,
      deductions |-> ded, is_ambiguous |-> amb, evidence |-> ev, note |-> nt,
      score_json |-> "number" ]

\* the local fallback judgment of an item that is no dict
ParseErrorResult ==
    [ kind |-> "dict", writing_status |-> <<>>, is_written |-> <<>>, score |-> <<0>>,
      deductions |-> << <<>> >>, is_ambiguous |-> <<TRUE>>, evidence |-> <<>>,
      note |-> << <<"parse_error">> >>, score_json |-> "number" ]

\* lines 410-420: a judgment that is not written is forced to score 0
ForceNotWritten(parsed, section) ==
    LET is_written == Get(parsed.is_written, "true") = "true"
                      /\ parsed.writing_status # <<"Missing">>
    IN  IF is_written THEN parsed
        ELSE [parsed EXCEPT
                !.score = <<0>>,
                !.score_json = "number",
                !.deductions =
                    IF Get(parsed.deductions, <<>>) = <<>>
                    THEN << << [reason |-> "not_written",
                                penalty |-> Get(section.points, 0)] >> >>
                    ELSE parsed.deductions]

\* lines 422-429: the normalized evidence and whether it is long enough
EvidenceOf(parsed) == normalize_evidence(Get(parsed.evidence, <<>>))

\* faulty variant: the threshold of the conclusion sections is used everywhere
EvidenceLongEnoughForConclusion(parsed, section) ==
    /\ EvidenceOf(parsed) # <<>>
    /\ SumSeq([k \in 1..Len(EvidenceOf(parsed)) |-> EvidenceOf(parsed)[k].len])
          >= MIN_EVIDENCE_LEN_CONCLUSION

EvidenceLongEnough(parsed, section) ==
    LET evidence == EvidenceOf(parsed)
        min_evidence_len == IF is_conclusion_section(section)
                            THEN MIN_EVIDENCE_LEN_CONCLUSION
                            ELSE MIN_EVIDENCE_LEN_DEFAULT
    IN  /\ evidence # <<>>
        /\ SumSeq([k \in 1..Len(evidence) |-> evidence[k].len]) >= min_evidence_len

\* lines 428-443: evidence_is_valid
EvidenceIsValid(parsed, section) ==
    /\ EvidenceLongEnough(parsed, section)
    /\ evidence_in_student(EvidenceOf(parsed))

\* lines 429-443: what the evidence check writes into the judgment
CheckEvidence(parsed, section) ==
    IF EvidenceIsValid(parsed, section)
    THEN [parsed EXCEPT !.evidence = << EvidenceOf(parsed) >>]
    ELSE [parsed EXCEPT
            !.evidence = << SentinelEvidence >>,
            !.deductions = IF parsed.deductions = <<>> THEN << <<>> >> ELSE parsed.deductions,
            !.note = IF EvidenceLongEnough(parsed, section) THEN << <<>> >> ELSE parsed.note]

\* float(parsed.get("score", 0)) raises TypeError on None and ValueError on text
FloatScoreRaises(parsed) == parsed.score # <<>> /\ parsed.score_json # "number"

\* lines 445-453: the Incomplete branch reads the score with a bare float()
PreCapRaises(parsed, section) ==
    parsed.writing_status = <<"Incomplete">> /\ FloatScoreRaises(parsed)

\* lines 445-453: the default penalty and the pre-cap of an Incomplete judgment
PreCapIncomplete(parsed, section) ==
    IF parsed.writing_status # <<"Incomplete">> THEN parsed
    ELSE
        LET points  == Get(section.points, 0)
            penalty == RoundToHalf(Times(points, INCOMPLETE_DEFAULT_PENALTY_RATIO))
            defaulted ==
                IF Get(parsed.deductions, <<>>) = <<>>
                THEN [parsed EXCEPT
                        !.score = << Max(0, Get(parsed.score, 0) - penalty) >>,
                        !.deductions = << << [reason |-> "stopped", penalty |-> penalty] >> >>]
                ELSE parsed
        IN  [defaulted EXCEPT
                !.score = << Min(Get(defaulted.score, 0), Times(points, INCOMPLETE_CAP_RATIO)) >>]

\* faulty variant: an item that is no dict is passed on as an empty judgment
LlmResultNoFallback(parsed, section) ==
    IF parsed.kind = "dict"
    THEN normalize_deductions_and_score(
            PreCapIncomplete(CheckEvidence(ForceNotWritten(parsed, section), section), section),
            section, EvidenceIsValid(parsed, section))
    ELSE [ParseErrorResult EXCEPT !.is_ambiguous = <<>>, !.note = <<>>]

\* lines 408-462: llm_result of one (section, parsed) pair
LlmResult(parsed, section) ==
    IF parsed.kind = "dict"
    THEN normalize_deductions_and_score(
            PreCapIncomplete(CheckEvidence(ForceNotWritten(parsed, section), section), section),
            section, EvidenceIsValid(parsed, section))
    ELSE ParseErrorResult

\* lines 408-454: the post-processing of the pair raises
LlmResultRaises(parsed, section) ==
    /\ parsed.kind = "dict"
    /\ PreCapRaises(CheckEvidence(ForceNotWritten(parsed, section), section), section)

\* lines 464-471: the entry appended to results
ResultEntry(parsed, section) ==
    [ section_id |-> section.id,
      max_points |-> Get(section.points, 0),
      llm_result |-> LlmResult(parsed, section) ]

-----------------------------------------------------------------------------
(* grade_with_gemini: the batches and the reply of each                    *)

\* the reply item the meaningless-text branch builds for a section
MeaninglessItem(section) ==
    Dict(<<"Missing">>, <<"false">>, <<0>>,
         << << [reason |-> "meaningless", penalty |-> Get(section.points, 0)] >> >>,
         <<>>, <<>>, << <<"x">> >>)

\* the reply item built for a section after the last failed attempt
FailedItem(section) ==
    Dict(<<>>, <<>>, <<0>>, << << [reason |-> "llm_failed", penalty |-> 0] >> >>,
         <<TRUE>>, <<>>, << <<"x">> >>)

\* no item: the reply list ended before this section
NoItem == [kind |-> "none"]

BatchModes == {"parsed", "failed", "meaningless"}

\* target_sections
TargetSections(rubric_sections) ==
    SelectSeq(rubric_sections, LAMBDA sec : is_llm_relevant_section(sec, rubric_sections))

\* problem_batches: the targets grouped by problem_num, the groups in the order
\* of their first section
RECURSIVE ProblemBatches(_)
ProblemBatches(pairs) ==
    IF pairs = <<>> THEN <<>>
    ELSE LET problem_num == Head(pairs).section.problem_num
         IN  SelectSeq(pairs, LAMBDA p : p.section.problem_num = problem_num)
             \o ProblemBatches(SelectSeq(pairs, LAMBDA p : p.section.problem_num # problem_num))

\* the item zip(batch, parsed_list) pairs with target i, under the batch's mode
ItemOf(targets, mode, reply, i) ==
    LET m == mode[targets[i].problem_num]
    IN  IF m = "meaningless" THEN MeaninglessItem(targets[i])
        ELSE IF m = "failed" THEN FailedItem(targets[i])
        ELSE reply[i]

\* a reply is a list: within a batch no item follows a missing one, and a batch
\* that is not answered by the model has no reply items
WellFormedReply(targets, mode, reply) ==
    \A i \in 1..Len(targets) :
        /\ mode[targets[i].problem_num] # "parsed" => reply[i] = NoItem
        /\ \A j \in 1..(i - 1) :
              (targets[j].problem_num = targets[i].problem_num /\ reply[j] = NoItem)
                  => reply[i] = NoItem

\* the (section, parsed) pairs of all batches, in the order results is filled
Zipped(rubric_sections, mode, reply) ==
    LET targets == TargetSections(rubric_sections)
        pairs   == [i \in 1..Len(targets) |->
                      [section |-> targets[i], parsed |-> ItemOf(targets, mode, reply, i)]]
    IN  SelectSeq(ProblemBatches(pairs), LAMBDA p : p.parsed # NoItem)

\* grade_run: llm_results = grade_with_gemini(rubric_sections, ...), the model's
\* reply items drawn from judgments
GradeWithGemini(judgments) ==
    /\ pc = "graded"
    /\ LET targets == TargetSections(rubric)
           nums    == {targets[i].problem_num : i \in 1..Len(targets)}
       IN  \E mode \in [nums -> BatchModes] :
           \E reply \in [1..Len(targets) -> judgments \cup {NoItem}] :
               /\ WellFormedReply(targets, mode, reply)
               /\ LET zipped == Zipped(rubric, mode, reply)
                      raises == \E k \in 1..Len(zipped) :
                                    LlmResultRaises(zipped[k].parsed, zipped[k].section)
                  IN  /\ parsed0' = [k \in 1..Len(zipped) |-> zipped[k].parsed]
                      /\ llm_results' =
                            IF raises THEN llm_results
                            ELSE [k \in 1..Len(zipped) |->
                                    ResultEntry(zipped[k].parsed, zipped[k].section)]
                      /\ pc' = IF raises THEN "raised" ELSE "judged"
    /\ UNCHANGED <<rubric, heap, base_result, final_result, base0, removed, lines, tables, answerVars, retryVars>>

-----------------------------------------------------------------------------
(* grade_with_gemini: the retry loop of one batch                          *)
(*                                                                         *)
(* pc = "calling" while the batch is in "while attempt <= retries"; calls  *)
(* counts the calls of generate_content.                                   *)

\* faulty variant: the fallback is built one failure too late
LastAttemptOffByOne == attempt = retries + 1

\* line 391: if attempt == retries
LastAttempt == attempt = retries

\* lines 408-471 for the one batch: the entries appended to results
BatchOutcome(mode, reply) ==
    LET targets == TargetSections(rubric)
        nums    == {targets[i].problem_num : i \in 1..Len(targets)}
        zipped  == Zipped(rubric, [n \in nums |-> mode], reply)
        raises  == \E k \in 1..Len(zipped) :
                      LlmResultRaises(zipped[k].parsed, zipped[k].section)
    IN  /\ parsed0' = [k \in 1..Len(zipped) |-> zipped[k].parsed]
        /\ llm_results' =
              IF raises THEN llm_results
              ELSE [k \in 1..Len(zipped) |-> ResultEntry(zipped[k].parsed, zipped[k].section)]
        /\ pc' = IF raises THEN "raised" ELSE "judged"

NoReply == [i \in 1..Len(TargetSections(rubric)) |-> NoItem]

\* lines 333-347: the problem's text is meaningless, the model is not called
MeaninglessBatch(judgments) ==
    /\ pc = "calling"
    /\ attempt = 0 /\ calls = 0
    /\ BatchOutcome("meaningless", NoReply)
    /\ UNCHANGED <<rubric, heap, base_result, final_result, base0, removed, lines, tables,
                   answerVars, retryVars>>

\* lines 349-387: generate_content returns and its text parses: break
ModelReplies(judgments) ==
    /\ pc = "calling"
    /\ attempt <= retries
    /\ calls' = calls + 1
    /\ \E reply \in [1..Len(TargetSections(rubric)) -> judgments \cup {NoItem}] :
          /\ WellFormedReply(TargetSections(rubric),
                             [n \in {TargetSections(rubric)[i].problem_num :
                                        i \in 1..Len(TargetSections(rubric))} |-> "parsed"],
                             reply)
          /\ BatchOutcome("parsed", reply)
    /\ UNCHANGED <<rubric, heap, base_result, final_result, base0, removed, lines, tables,
                   answerVars, retries, attempt>>

\* lines 388-406: generate_content or json.loads raises: the fallback list
\* after the last attempt, else sleep and attempt += 1
ModelFails ==
    /\ pc = "calling"
    /\ attempt <= retries
    /\ calls' = calls + 1
    /\ IF LastAttempt
       THEN /\ BatchOutcome("failed", NoReply)
            /\ UNCHANGED attempt
       ELSE /\ attempt' = attempt + 1
            /\ UNCHANGED <<pc, parsed0, llm_results>>
    /\ UNCHANGED <<rubric, heap, base_result, final_result, base0, removed, lines, tables,
                   answerVars, retries>>

\* a call _normalize_deductions_and_score(parsed, section, evidence_is_valid)
\* on the judgment parsed0[1] and the section rubric[1]
NormalizeDeductionsAndScore ==
    /\ pc = "start"
    /\ \E evidence_is_valid \in BOOLEAN :
          llm_results' =
              << [ section_id |-> rubric[1].id,
                   max_points |-> Get(rubric[1].points, 0),
                   llm_result |-> normalize_deductions_and_score(parsed0[1], rubric[1],
                                                                 evidence_is_valid) ] >>
    /\ pc' = "normalized"
    /\ UNCHANGED <<rubric, heap, base_result, final_result, base0, parsed0, removed, lines,
                   tables, answerVars, retryVars>>

-----------------------------------------------------------------------------
(* merge_llm_results                                                       *)

\* by_section.get(section_id): the last entry of llm_results with that id
BySection(results, section_id) ==
    LET hits == SelectSeq(results, LAMBDA r : r.section_id = section_id)
    IN  IF hits = <<>> THEN <<>> ELSE << hits[Len(hits)] >>

\* Python truthiness of llm_result.get("is_ambiguous")
Truthy(flag) == flag = <<TRUE>>

\* faulty variant: the merged score is not clamped to the section's points
MergedItemUnclamped(item, llm_item) ==
    [item EXCEPT !.deductions = Get(llm_item.llm_result.deductions, <<>>),
                 !.llm = << llm_item.llm_result >>,
                 !.score = Get(llm_item.llm_result.score, item.score)]

\* lines 218-223: the ScoreDetail dict after the in-place update
MergedItem(item, llm_item) ==
    LET llm_result == llm_item.llm_result
        max_points == item.max_points
        llm_score  == Get(llm_result.score, item.score)
    IN  [item EXCEPT !.deductions = Get(llm_result.deductions, <<>>),
                     !.llm = << llm_result >>,
                     !.score = Max(0, Min(max_points, llm_score))]

\* faulty variant: an unmatched detail is reset and tagged
MergeStepTouchesAll(item, results) ==
    LET llm_item == BySection(results, item.section_id)
    IN  IF llm_item # <<>> THEN MergedItem(item, llm_item[1])
        ELSE [item EXCEPT !.llm = << ParseErrorResult >>]

\* one iteration of the loop over score_details
MergeStep(item, results) ==
    LET llm_item == BySection(results, item.section_id)
    IN  IF llm_item # <<>> THEN MergedItem(item, llm_item[1]) ELSE item

\* faulty variant: the flag is the judgments' alone
MergedAmbiguousForgetsBaseline(base_flag, details, results) ==
    \E k \in 1..Len(details) :
        LET llm_item == BySection(results, details[k].section_id)
        IN  llm_item # <<>> /\ Truthy(llm_item[1].llm_result.is_ambiguous)

\* is_ambiguous at the end of the loop
MergedAmbiguous(base_flag, details, results) ==
    \/ base_flag
    \/ \E k \in 1..Len(details) :
          LET llm_item == BySection(results, details[k].section_id)
          IN  llm_item # <<>> /\ Truthy(llm_item[1].llm_result.is_ambiguous)

\* lines 217-224: llm_result.get(...) raises when an applied llm_result is no dict
MergeRaises(details, results) ==
    \E k \in 1..Len(details) :
        LET llm_item == BySection(results, details[k].section_id)
        IN  llm_item # <<>> /\ llm_item[1].llm_result.kind # "dict"

\* grade_run: final_result = merge_llm_results(base_result, llm_results).
\* The loop assigns into the dicts of base_result["score_details"] and appends
\* the same dicts to updated_details.
MergeLlmResults ==
    /\ pc = "judged"
    /\ ~ MergeRaises(Deref(heap, base_result), llm_results)
    /\ LET refs == base_result.score_details
           before == Deref(heap, base_result)
           updated == [k \in 1..Len(refs) |-> MergeStep(heap[refs[k]], llm_results)]
       IN  /\ heap' = [r \in DOMAIN heap |->
                         IF \E k \in 1..Len(refs) : refs[k] = r
                         THEN updated[CHOOSE k \in 1..Len(refs) : refs[k] = r]
                         ELSE heap[r]]
           /\ final_result' =
                [ score_details |-> refs,
                  is_ambiguous  |-> MergedAmbiguous(base_result.is_ambiguous, before, llm_results),
                  human_note    |-> HumanNote(calculate_final_score(updated), <<>>) ]
    /\ pc' = "done"
    /\ UNCHANGED <<rubric, base_result, llm_results, base0, parsed0, removed, lines, tables, answerVars, retryVars>>

-----------------------------------------------------------------------------
(* parse_rubric_v2: the outline of a rubric text                           *)
(*                                                                         *)
(* A line of the text, after _clean_line, is one of                        *)
(*   [kind |-> "problem", num, points]   "[문제 N.에 관하여] (P점)"        *)
(*   [kind |-> "page"]                  a page marker                      *)
(*   [kind |-> "text", marker, spaced, digit_title, points]                *)
(* where marker holds the characters before a leading "X." (<<>> when the  *)
(* line does not start that way), spaced tells whether white space follows *)
(* the ".", digit_title whether the text after it is empty or starts with  *)
(* a digit, and points is the "(P점)" of the line, if any. Characters that *)
(* are not ASCII are written by name: "R1", "R2" for the one-character     *)
(* Roman numerals U+2160 and U+2161, "ga", "na" for the Hangul syllables   *)
(* U+AC00 and U+B098, "gak" for the syllable U+AC01.                       *)

UnicodeRomans == {"R1", "R2"}

AsciiRomans == {"I", "V", "X"}

DigitChars == {"0", "1", "2", "3", "4", "5", "6", "7", "8", "9"}

\* the class [가-하] of the level-3 pattern: every syllable from U+AC00 to
\* U+D558
HangulChars == {"ga", "gak", "na"}

AllIn(marker, chars) ==
    marker # <<>> /\ \A k \in 1..Len(marker) : marker[k] \in chars

\* faulty variant: a Unicode Roman numeral is kept as the label
NormalizeRomanKeepsUnicode(label) == label

\* ROMAN_UNICODE_MAP.get(label, label): only a label that is one mapped
\* character is rewritten
normalize_roman(label) ==
    IF label = <<"R1">> THEN <<"I">>
    ELSE IF label = <<"R2">> THEN <<"I", "I">>
    ELSE label

NoHeading == [level |-> 0, label |-> <<>>]

\* _detect_heading: the level and label of a heading line, NoHeading otherwise
detect_heading(line) ==
    IF AllIn(line.marker, UnicodeRomans) \/ AllIn(line.marker, AsciiRomans)
    THEN [level |-> 1, label |-> normalize_roman(line.marker)]
    ELSE IF AllIn(line.marker, DigitChars) /\ line.spaced /\ ~ line.digit_title
    THEN [level |-> 2, label |-> line.marker]
    ELSE IF Len(line.marker) = 1 /\ line.marker[1] \in HangulChars
    THEN [level |-> 3, label |-> line.marker]
    ELSE NoHeading

\* ".".join([p for p in path_stack if p])
RECURSIVE JoinPath(_)
JoinPath(path_stack) ==
    LET parts == SelectSeq(path_stack, LAMBDA part : part # <<>>)
    IN  IF parts = <<>> THEN <<>>
        ELSE IF Len(parts) = 1 THEN parts[1]
        ELSE parts[1] \o <<Dot>> \o JoinPath(Tail(parts))

\* faulty variant: the stack is never cut back to the heading's level
PathStackKeepsDeeper(path_stack, level, label) ==
    LET padded == [k \in 1..Max(Len(path_stack), level + 1) |->
                     IF k <= Len(path_stack) THEN path_stack[k] ELSE <<>>]
    IN  [padded EXCEPT ![level + 1] = label]

\* lines 222-226: path_stack after a heading (path_stack[0] is the problem number)
PathStackAfter(path_stack, level, label) ==
    LET cut    == IF Len(path_stack) > level
                  THEN SubSeq(path_stack, 1, level + 1) ELSE path_stack
        padded == [k \in 1..(level + 1) |-> IF k <= Len(cut) THEN cut[k] ELSE <<>>]
    IN  [padded EXCEPT ![level + 1] = label]

ParserStart == [in_problem |-> FALSE, problem_num |-> <<>>, path_stack |-> <<>>,
                has_section |-> FALSE, sections |-> <<>>]

\* one iteration of the loop over lines (lines 198-246)
ParseLine(st, line) ==
    IF line.kind = "page" THEN st
    ELSE IF line.kind = "problem"
    THEN [st EXCEPT !.in_problem = TRUE, !.problem_num = line.num,
                    !.path_stack = <<line.num>>, !.has_section = FALSE]
    ELSE IF ~ st.in_problem THEN st
    ELSE LET heading == detect_heading(line)
             n == Len(st.sections)
         IN  IF heading.level # 0
             THEN LET path_stack == PathStackAfter(st.path_stack, heading.level, heading.label)
                  IN  [st EXCEPT
                         !.path_stack = path_stack,
                         !.has_section = TRUE,
                         !.sections = Append(@,
                            [ id |-> JoinPath(path_stack), level |-> heading.level,
                              label |-> heading.label, points |-> line.points,
                              text |-> {}, problem_num |-> st.problem_num ])]
             ELSE IF st.has_section /\ st.sections[n].points = <<>>
             THEN [st EXCEPT !.sections[n].points = line.points]
             ELSE st

RECURSIVE ParseLines(_, _)
ParseLines(st, text_lines) ==
    IF text_lines = <<>> THEN st
    ELSE ParseLines(ParseLine(st, Head(text_lines)), Tail(text_lines))

\* parse_rubric_v2(text)["sections"]
parse_rubric_v2(text_lines) == ParseLines(ParserStart, text_lines).sections

\* parse_rubric(text): the rubric's section list
ParseRubric ==
    /\ pc = "start"
    /\ lines # <<>>
    /\ rubric' = parse_rubric_v2(lines)
    /\ pc' = "parsed"
    /\ UNCHANGED <<heap, base_result, llm_results, final_result, base0, parsed0, removed, lines, tables, answerVars, retryVars>>

-----------------------------------------------------------------------------
(* _parse_table_sections: the outline of the table grids                   *)
(*                                                                         *)
(* The rows of all tables, in order.  A row is                             *)
(*   [empty, first, inline, bare]                                          *)
(* where empty tells that the row has no cell with text, first is          *)
(* cells[0] (or the joined row when cells[0] is blank) as a line of the    *)
(* text parser, inline is the "(P점)" of the other cells and bare their    *)
(* first number of one or two digits, if any.                              *)

\* len(heading): _detect_heading returns (level, label, title)
HeadingTupleLen == 3

\* the names level, label, title, points the row loop unpacks the tuple into
UnpackTargets == 4

\* _parse_table_sections: the statement "level, label, title, points =
\* heading" raises ValueError on the first row that is a heading; a row that
\* is empty or no heading is skipped
parse_table_sections(rows) ==
    LET headings == { i \in 1..Len(rows) :
                        ~ rows[i].empty /\ detect_heading(rows[i].first).level # 0 }
    IN  [ raised   |-> headings # {} /\ HeadingTupleLen # UnpackTargets,
          sections |-> <<>> ]

\* a call of _parse_table_sections on the grids
ParseTableSections ==
    /\ pc = "start"
    /\ LET out == parse_table_sections(tables)
       IN  /\ pc' = IF out.raised THEN "raised" ELSE "tabled"
           /\ rubric' = out.sections
    /\ UNCHANGED <<heap, base_result, llm_results, final_result, base0, parsed0, removed,
                   lines, tables, answerVars, retryVars>>

-----------------------------------------------------------------------------
(* The student answer text                                                 *)
(*                                                                         *)
(* A text is the non-empty sequence of its lines (text.split("\n")), the   *)
(* empty text being one empty line.  A line is a sequence of tokens        *)
(* separated by white space: "P1", "P2", "P3" (the markers "[문제 1]",     *)
(* "[문제 2]", "[문제 3]"), "H" (an outline marker such as "I." or "1."),  *)
(* and the words "w" and "v".  A blank line is the empty sequence.         *)

ProblemMarkers == {"P1", "P2", "P3"}

\* group(1) of PROBLEM_HEADING_RE
MarkerNum(marker) ==
    IF marker = "P1" THEN "1" ELSE IF marker = "P2" THEN "2" ELSE "3"

EmptyText == << <<>> >>

\* text.strip() == "": every line is blank
IsBlankText(text) == \A i \in 1..Len(text) : text[i] = <<>>

\* "\n".join(buffer).strip(): the blank lines at both ends go
StripBlankLines(text_lines) == StripLeft(StripRight(text_lines, {<<>>}), {<<>>})

\* PROBLEM_HEADING_RE.match(line.strip())
IsProblemHeading(line) == line # <<>> /\ line[1] \in ProblemMarkers

\* dict assignment chunks[num] = content: a present key keeps its place
SetChunk(dict, num, content) ==
    IF \E k \in 1..Len(dict) : dict[k].num = num
    THEN [k \in 1..Len(dict) |->
            IF dict[k].num = num THEN [num |-> num, content |-> content] ELSE dict[k]]
    ELSE Append(dict, [num |-> num, content |-> content])

\* flush() of split_by_problem_headings
Flush(st) ==
    IF st.current_num = <<>> THEN [st EXCEPT !.buffer = <<>>]
    ELSE LET content == StripBlankLines(st.buffer)
         IN  [st EXCEPT !.buffer = <<>>,
                        !.chunks = IF content = <<>> THEN st.chunks
                                   ELSE SetChunk(st.chunks, st.current_num[1], content)]

\* one turn of the loop of split_by_problem_headings
SplitLine(st, line) ==
    IF IsProblemHeading(line)
    THEN LET flushed  == Flush(st)
             trailing == Tail(line)
         IN  [flushed EXCEPT !.current_num = << MarkerNum(line[1]) >>,
                             !.buffer = IF trailing # <<>> THEN <<line, trailing>>
                                        ELSE <<line>>]
    ELSE [st EXCEPT !.buffer = Append(st.buffer, line)]

RECURSIVE SplitLines(_, _)
SplitLines(st, text_lines) ==
    IF text_lines = <<>> THEN st
    ELSE SplitLines(SplitLine(st, Head(text_lines)), Tail(text_lines))

\* split_by_problem_headings: the dict as the sequence of its (num, content)
\* items in insertion order
split_by_problem_headings(text) ==
    Flush(SplitLines([chunks |-> <<>>, current_num |-> <<>>, buffer |-> <<>>], text)).chunks

\* _HEADING_RE.match(line)
IsOutlineHeading(line) == line # <<>> /\ line[1] = "H"

\* " ".join(current_paragraph)
RECURSIVE JoinParagraph(_)
JoinParagraph(paragraph) ==
    IF paragraph = <<>> THEN <<>> ELSE Head(paragraph) \o JoinParagraph(Tail(paragraph))

\* flush_paragraph() of normalize_answer_for_upload
FlushParagraph(st) ==
    IF st.current_paragraph = <<>> THEN st
    ELSE [ result_lines |-> Append(st.result_lines, JoinParagraph(st.current_paragraph)),
           current_paragraph |-> <<>> ]

\* one turn of the loop of normalize_answer_for_upload
NormalizeLine(st, line) ==
    IF line = <<>> THEN FlushParagraph(st)
    ELSE IF IsOutlineHeading(line)
    THEN [FlushParagraph(st) EXCEPT !.result_lines = Append(@, line)]
    ELSE [st EXCEPT !.current_paragraph = Append(@, line)]

RECURSIVE NormalizeLines(_, _)
NormalizeLines(st, text_lines) ==
    IF text_lines = <<>> THEN st
    ELSE NormalizeLines(NormalizeLine(st, Head(text_lines)), Tail(text_lines))

\* normalize_answer_for_upload
normalize_answer_for_upload(text) ==
    IF IsBlankText(text) THEN EmptyText
    ELSE FlushParagraph(NormalizeLines([result_lines |-> <<>>, current_paragraph |-> <<>>],
                                       text)).result_lines

\* the text as one token stream, "nl" between the lines
RECURSIVE Flat(_)
Flat(text) ==
    IF Len(text) = 1 THEN text[1] ELSE text[1] \o <<"nl">> \o Flat(Tail(text))

\* the lines of a token stream
RECURSIVE Unflat(_)
Unflat(stream) ==
    LET breaks == { n \in 1..Len(stream) : stream[n] = "nl" }
    IN  IF breaks = {} THEN <<stream>>
        ELSE LET n == CHOOSE m \in breaks : \A k \in breaks : m <= k
             IN  <<SubSeq(stream, 1, n - 1)>> \o Unflat(SubSeq(stream, n + 1, Len(stream)))

\* str.strip() of a stream
StripStream(stream) == StripLeft(StripRight(stream, {"nl"}), {"nl"})

\* the first position after from that holds marker (0: none)
FirstAfter(stream, from, marker) ==
    LET found == { n \in (from + 1)..Len(stream) : stream[n] = marker }
    IN  IF found = {} THEN 0 ELSE CHOOSE n \in found : \A k \in found : n <= k

\* _normalize_stored_answer_text
normalize_stored_answer_text(answer_text) ==
    IF IsBlankText(answer_text) THEN answer_text
    ELSE
        LET stream == StripStream(Flat(answer_text))
            i2 == IF stream[1] = "P1" THEN FirstAfter(stream, 1, "P2") ELSE 0
            i3 == IF i2 = 0 THEN 0 ELSE FirstAfter(stream, i2, "P3")
            Block(a, b) == normalize_answer_for_upload(
                               Unflat(StripStream(SubSeq(stream, a + 1, b - 1))))
        IN  IF i3 = 0 THEN normalize_answer_for_upload(answer_text)
            ELSE << <<"P1">> >> \o Block(1, i2)
                 \o << <<>>, <<"P2">> >> \o Block(i2, i3)
                 \o << <<>>, <<"P3">> >> \o Block(i3, Len(stream) + 1)

\* upload_answer: the extracted text is stored normalized
UploadAnswer ==
    /\ pc = "start"
    /\ answer' = normalize_answer_for_upload(answer)
    /\ pc' = "stored"
    /\ UNCHANGED <<rubric, heap, base_result, llm_results, final_result, base0, parsed0,
                   removed, lines, tables, chunks, updated_answers, runs, retryVars>>

\* normalize_all_answers over the one stored answer
NormalizeAllAnswers ==
    /\ pc = "stored"
    /\ runs < MaxRuns
    /\ LET new_text == normalize_stored_answer_text(answer)
           changed  == ~ IsBlankText(answer) /\ new_text # answer
       IN  /\ answer' = IF changed THEN new_text ELSE answer
           /\ updated_answers' = IF changed THEN 1 ELSE 0
    /\ runs' = runs + 1
    /\ UNCHANGED <<rubric, pc, heap, base_result, llm_results, final_result, base0, parsed0,
                   removed, lines, tables, chunks, retryVars>>

\* clean_student_ocr: text.strip(), as far as whole lines go
clean_student_ocr(text) == StripBlankLines(text)

\* parse_answer_text: problem_chunks = split_by_problem_headings(normalized)
SplitByProblemHeadings ==
    /\ pc = "start"
    /\ chunks' = split_by_problem_headings(clean_student_ocr(answer))
    /\ pc' = "split"
    /\ UNCHANGED <<rubric, heap, base_result, llm_results, final_result, base0, parsed0,
                   removed, lines, tables, answer, updated_answers, runs, retryVars>>

-----------------------------------------------------------------------------
(* Inputs                                                                  *)

Id_1_I    == <<"1", Dot, "I">>
Id_1_I_1  == <<"1", Dot, "I", Dot, "1">>
Id_1_II   == <<"1", Dot, "I", "I">>
Id_2_I    == <<"2", Dot, "I">>
Id_1_I_1_a == <<"1", Dot, "I", Dot, "1", Dot, "a">>

Section(id, points, text) ==
    [id |-> id, problem_num |-> <<id[1]>>, points |-> points, text |-> text]

\* points: None, 2.5 and, for one leaf id, 0; grade_basic reads the text only of
\* sections with points
SectionPool ==
    { Section(id, <<>>, {}) : id \in {Id_1_I, Id_1_I_1, Id_1_II, Id_2_I} }
    \cup { Section(Id_1_I_1, <<0>>, {}) }
    \cup { Section(id, <<1000>>, text) :
              id \in {Id_1_I, Id_1_I_1, Id_1_II, Id_2_I},
              text \in {{}, {"subsumption"}} }

SeqsUpTo(S, n) == UNION { [1..k -> S] : k \in 0..n }

\* evidence lists: two sentences found in the answer (40 characters kept), one
\* long sentence found (25 kept), two sentences not found, and blank with sentinel
EvidenceFound2 == << [len |-> 20, x |-> FALSE, found |-> TRUE],
                     [len |-> 20, x |-> FALSE, found |-> TRUE] >>
EvidenceFound1 == << [len |-> 40, x |-> FALSE, found |-> TRUE] >>
EvidenceUnfound2 == << [len |-> 20, x |-> FALSE, found |-> FALSE],
                       [len |-> 20, x |-> FALSE, found |-> FALSE] >>
EvidenceBlankX == << [len |-> 0, x |-> FALSE, found |-> FALSE],
                     [len |-> 1, x |-> TRUE, found |-> FALSE] >>

NoteTokens == {"x", "sp", ".", "da", "imnida", "doem", "ham"}

\* a note "... 다."
PlainNote == <<"x", "da", ".">>

LlmDeduction(penalty) == [reason |-> "llm", penalty |-> penalty]

\* the reply items of a grading run: a plain Full judgment, an over-scored one
\* with deductions beyond the points, a Missing one, and items that are no dict
SmallJudgments ==
    { Dict(<<"Full">>, <<"true">>, <<3600>>, << <<>> >>, <<>>, <<EvidenceFound2>>, <<PlainNote>>),
      Dict(<<"Full">>, <<>>, <<4800>>, << <<LlmDeduction(3200), LlmDeduction(3200)>> >>,
           <<TRUE>>, <<>>, <<>>),
      Dict(<<"Missing">>, <<"true">>, <<3600>>, <<>>, <<FALSE>>, <<EvidenceFound2>>, <<PlainNote>>),
      [kind |-> "null"], [kind |-> "str"], [kind |-> "list"] }

\* scores -1, 0, 2.6, 8, 9 and 12; penalties -1, 0.25, 1 and 8; every writing
\* status, is_written and evidence list, is_ambiguous and the note fixed; and a
\* Full judgment with every note of up to MaxNoteLen tokens
RichJudgments ==
    { Dict(ws, iw, sc, ded, amb, ev, <<PlainNote>>) :
        ws  \in {<<>>, <<"Missing">>, <<"Incomplete">>, <<"Full">>},
        iw  \in {<<>>, <<"false">>, <<"null">>},
        sc  \in {<<>>, <<0 - 400>>, <<0>>, <<1040>>, <<3200>>, <<3600>>, <<4800>>},
        ded \in {<<>>} \cup
                { <<d>> : d \in SeqsUpTo({LlmDeduction(p) : p \in {0 - 400, 100, 400, 3200}},
                                         MaxDeductions) },
        amb \in {<<TRUE>>},
        ev  \in {<<>>, <<EvidenceFound2>>, <<EvidenceFound1>>, <<EvidenceUnfound2>>} }
    \cup { Dict(<<"Full">>, <<>>, <<3600>>, <<>>, <<TRUE>>, <<EvidenceFound2>>, nt) :
              nt \in {<<>>} \cup { <<note>> : note \in SeqsUpTo(NoteTokens, MaxNoteLen) } }
    \cup {[kind |-> "null"]}

\* judgments whose "score" key is absent, a number (0, 9), None or text that is
\* no float literal, under every writing status
CoerceJudgments ==
    { [Dict(ws, iw, sc, ded, <<>>, ev, <<PlainNote>>) EXCEPT !.score_json = js] :
        ws  \in {<<>>, <<"Missing">>, <<"Incomplete">>, <<"Full">>},
        iw  \in {<<>>, <<"false">>},
        sc  \in {<<0>>},
        js  \in {"null", "text"},
        ded \in {<<>>, << <<>> >>, << <<LlmDeduction(400)>> >>},
        ev  \in {<<>>, <<EvidenceFound2>>} }
    \cup
    { Dict(ws, iw, sc, ded, <<>>, ev, <<PlainNote>>) :
        ws  \in {<<>>, <<"Missing">>, <<"Incomplete">>, <<"Full">>},
        iw  \in {<<>>, <<"false">>},
        sc  \in {<<>>, <<0>>, <<3600>>},
        ded \in {<<>>, << <<>> >>, << <<LlmDeduction(400)>> >>},
        ev  \in {<<>>, <<EvidenceFound2>>} }

\* points: None, -1, 0, 0.25, 0.75, 1.5, 2.5 and 10
JudgeSectionPool ==
    { Section(Id_1_I, points, text) :
        points \in {<<>>, <<0 - 400>>, <<0>>, <<100>>, <<300>>, <<600>>, <<1000>>, <<4000>>},
        text \in {{}, {"conclusion"}, {"subsumption"}} }

LeafSectionPool ==
    { Section(id, <<4000>>, {}) : id \in {Id_1_I, Id_1_I_1, Id_1_I_1_a, Id_1_II, Id_2_I} }

ProblemLine(num, points) == [kind |-> "problem", num |-> num, points |-> points]

TextLine(marker, spaced, digit_title, points) ==
    [kind |-> "text", marker |-> marker, spaced |-> spaced,
     digit_title |-> digit_title, points |-> points]

\* "[문제 1.에 관하여] (30점)", "[문제 2.에 관하여]", a page marker,
\* "Ⅰ. 문제의 제기 (10점)", "II. ...", "1. 사실관계 검토", "1.5 ...",
\* "가. 요건 (4점)", "나. ...", a plain line "... (2점)", "각. ..." and
\* "ⅠⅡ. ..."
LinePool ==
    { ProblemLine(<<"1">>, <<12000>>), ProblemLine(<<"2">>, <<>>), [kind |-> "page"],
      TextLine(<<"R1">>, TRUE, FALSE, <<4000>>),
      TextLine(<<"I", "I">>, TRUE, FALSE, <<>>),
      TextLine(<<"1">>, TRUE, FALSE, <<>>),
      TextLine(<<"1">>, FALSE, TRUE, <<>>),
      TextLine(<<"ga">>, TRUE, FALSE, <<1600>>),
      TextLine(<<"na">>, TRUE, FALSE, <<>>),
      TextLine(<<>>, FALSE, FALSE, <<800>>),
      TextLine(<<"gak">>, TRUE, FALSE, <<>>),
      TextLine(<<"R1", "R2">>, TRUE, FALSE, <<>>) }

-----------------------------------------------------------------------------
(* The specifications                                                      *)

\* no stored answer is worked on
NoAnswer == answer = <<>> /\ chunks = <<>> /\ updated_answers = 0 /\ runs = 0

\* no batch is in the retry loop
NoBatch == retries = 0 /\ attempt = 0 /\ calls = 0

InitWith(rubrics) ==
    /\ rubric \in rubrics
    /\ pc = "start"
    /\ heap = <<>>
    /\ base_result = NoResult
    /\ llm_results = <<>>
    /\ final_result = NoResult
    /\ base0 = <<>>
    /\ parsed0 = <<>>
    /\ removed = <<>>
    /\ lines = <<>>
    /\ tables = <<>>
    /\ NoAnswer
    /\ NoBatch

\* a hybrid grading run (grade_run) over a rubric of up to MaxSections sections
Init == InitWith(SeqsUpTo(SectionPool, MaxSections))

Next ==
    \/ GradeBasic
    \/ SkipLlm
    \/ GradeWithGemini(SmallJudgments)
    \/ MergeLlmResults

Spec == Init /\ [][Next]_vars

\* a grading run over one section, for every judgment of RichJudgments
InitJudge == InitWith({ <<sec>> : sec \in JudgeSectionPool })

NextJudge ==
    \/ GradeBasic
    \/ SkipLlm
    \/ GradeWithGemini(RichJudgments)
    \/ MergeLlmResults

SpecJudge == InitJudge /\ [][NextJudge]_vars

\* a grading run over one section, for every judgment of CoerceJudgments
InitCoerce == InitWith({ <<sec>> : sec \in JudgeSectionPool })

NextCoerce ==
    \/ GradeBasic
    \/ SkipLlm
    \/ GradeWithGemini(CoerceJudgments)
    \/ MergeLlmResults

SpecCoerce == InitCoerce /\ [][NextCoerce]_vars

\* evidence lists with one string of up to MaxEvidenceLen characters, found in
\* the student text or not, alone or next to a sentinel "X"
OneStringEvidence ==
    { << [len |-> n, x |-> FALSE, found |-> f] >> : n \in 0..MaxEvidenceLen, f \in BOOLEAN }
    \cup { << [len |-> 1, x |-> TRUE, found |-> FALSE], [len |-> n, x |-> FALSE, found |-> TRUE] >> :
              n \in 0..MaxEvidenceLen }

\* judgments Full, score 9, with such an evidence list, and with two strings
EvidenceJudgments ==
    { Dict(ws, <<"true">>, <<3600>>, << <<>> >>, <<>>, <<ev>>, <<PlainNote>>) :
        ws \in {<<"Full">>, <<"Incomplete">>},
        ev \in OneStringEvidence \cup {EvidenceFound2} }

\* a grading run over one section, for every judgment of EvidenceJudgments
InitEvidence == InitWith({ <<sec>> : sec \in JudgeSectionPool })

NextEvidence ==
    \/ GradeBasic
    \/ SkipLlm
    \/ GradeWithGemini(EvidenceJudgments)
    \/ MergeLlmResults

SpecEvidence == InitEvidence /\ [][NextEvidence]_vars

\* judgments of every writing status and is_written, scores absent, -1, 0, 2.6,
\* 8, 9 and 12, deductions absent or a list of up to MaxDeductions entries with
\* penalties -1, 0 and 1
NormalizeJudgments ==
    { Dict(ws, iw, sc, ded, <<>>, <<>>, <<PlainNote>>) :
        ws  \in {<<>>, <<"Missing">>, <<"Incomplete">>, <<"Full">>},
        iw  \in {<<>>, <<"false">>, <<"null">>},
        sc  \in {<<>>, <<0 - 400>>, <<0>>, <<1040>>, <<3200>>, <<3600>>, <<4800>>},
        ded \in {<<>>} \cup
                { <<d>> : d \in SeqsUpTo({LlmDeduction(p) : p \in {0 - 400, 0, 400}},
                                         MaxDeductions) } }

\* the sections grade_with_gemini hands to the function: points present and > 0
NormalizeSections ==
    { sec \in JudgeSectionPool : is_llm_relevant_section(sec, <<sec>>) }

\* _normalize_deductions_and_score on every judgment of NormalizeJudgments
InitNormalize ==
    /\ rubric \in { <<sec>> : sec \in NormalizeSections }
    /\ parsed0 \in { <<parsed>> : parsed \in NormalizeJudgments }
    /\ pc = "start"
    /\ heap = <<>>
    /\ base_result = NoResult
    /\ llm_results = <<>>
    /\ final_result = NoResult
    /\ base0 = <<>>
    /\ removed = <<>>
    /\ lines = <<>>
    /\ tables = <<>>
    /\ NoAnswer
    /\ NoBatch

NextNormalize == NormalizeDeductionsAndScore

SpecNormalize == InitNormalize /\ [][NextNormalize]_vars

\* the reply item with its own "section_id" key
WithSectionId(item, section_id) ==
    [key \in DOMAIN item \cup {"section_id"} |->
        IF key = "section_id" THEN section_id ELSE item[key]]

\* scored leaves of the problems 1 and 2
OrderSectionPool ==
    { Section(id, <<1000>>, {}) : id \in {Id_1_I, Id_1_II, Id_2_I} }

\* a plain Full judgment and a Missing one, each naming one of the sections
OrderJudgments ==
    { WithSectionId(item, id) :
        item \in { Dict(<<"Full">>, <<"true">>, <<3600>>, << <<>> >>, <<>>,
                        <<EvidenceFound2>>, <<PlainNote>>),
                   Dict(<<"Missing">>, <<"true">>, <<3600>>, <<>>, <<FALSE>>,
                        <<EvidenceFound2>>, <<PlainNote>>) },
        id \in {Id_1_I, Id_1_II, Id_2_I} }

\* a grading run whose reply items name their section
InitOrder == InitWith(SeqsUpTo(OrderSectionPool, MaxSections))

NextOrder ==
    \/ GradeBasic
    \/ SkipLlm
    \/ GradeWithGemini(OrderJudgments)
    \/ MergeLlmResults

SpecOrder == InitOrder /\ [][NextOrder]_vars

\* the sections of one batch, scored leaves of problem 1: a batch of one
\* section and a batch of two
RetryRubrics ==
    { << Section(Id_1_I, <<1000>>, {}) >>,
      << Section(Id_1_I, <<1000>>, {}), Section(Id_1_II, <<1000>>, {}) >> }

\* one batch of grade_with_gemini in its retry loop, for every LLM_RETRIES up
\* to MaxRetries
InitRetry ==
    /\ rubric \in RetryRubrics
    /\ pc = "calling"
    /\ retries \in 0..MaxRetries
    /\ attempt = 0
    /\ calls = 0
    /\ heap = <<>>
    /\ base_result = NoResult
    /\ llm_results = <<>>
    /\ final_result = NoResult
    /\ base0 = <<>>
    /\ parsed0 = <<>>
    /\ removed = <<>>
    /\ lines = <<>>
    /\ tables = <<>>
    /\ NoAnswer

NextRetry ==
    \/ ModelReplies(SmallJudgments)
    \/ ModelFails
    \/ MeaninglessBatch(SmallJudgments)

SpecRetry == InitRetry /\ [][NextRetry]_vars

\* the loop is sequential code: a call of generate_content returns or raises,
\* and the sleep between two attempts ends
SpecRetryFair == SpecRetry /\ WF_vars(NextRetry)

\* the leaf index under removal of a leaf section from the list
RemoveLeaf ==
    /\ pc = "start"
    /\ \E i \in 1..Len(rubric) :
          /\ is_leaf_section(rubric[i].id, rubric)
          /\ rubric' = SubSeq(rubric, 1, i - 1) \o SubSeq(rubric, i + 1, Len(rubric))
          /\ removed' = << [before |-> rubric, index |-> i] >>
    /\ UNCHANGED <<pc, heap, base_result, llm_results, final_result, base0, parsed0, lines, tables, answerVars, retryVars>>

InitLeaf == InitWith(SeqsUpTo(LeafSectionPool, MaxLeafSections))

NextLeaf == RemoveLeaf

SpecLeaf == InitLeaf /\ [][NextLeaf]_vars

\* the lines of an answer: blank, two lines of text, an outline heading, the
\* three problem headings and a problem heading with text on its line
AnswerLinePool ==
    { <<>>, <<"w">>, <<"v">>, <<"H">>, <<"P1">>, <<"P2">>, <<"P3">>, <<"P1", "w">> }

\* an uploaded answer text of up to MaxAnswerLines lines: it is split into its
\* problem chunks, or stored and run through normalize-all
InitAnswer ==
    /\ answer \in SeqsUpTo(AnswerLinePool, MaxAnswerLines) \ {<<>>}
    /\ chunks = <<>>
    /\ updated_answers = 0
    /\ runs = 0
    /\ rubric = <<>>
    /\ pc = "start"
    /\ heap = <<>>
    /\ base_result = NoResult
    /\ llm_results = <<>>
    /\ final_result = NoResult
    /\ base0 = <<>>
    /\ parsed0 = <<>>
    /\ removed = <<>>
    /\ lines = <<>>
    /\ tables = <<>>
    /\ NoBatch

NextAnswer ==
    \/ SplitByProblemHeadings
    \/ UploadAnswer
    \/ NormalizeAllAnswers

SpecAnswer == InitAnswer /\ [][NextAnswer]_vars

TableRow(first, inline, bare) ==
    [empty |-> FALSE, first |-> first, inline |-> inline, bare |-> bare]

\* an empty row, "Ⅰ. 쟁점 | ... (10점)", "1. 검토 | ... 5 ...", "가. 요건 | ...",
\* "채점 기준 | 배점" and "비고 | 3"
RowPool ==
    { [empty |-> TRUE, first |-> TextLine(<<>>, FALSE, FALSE, <<>>), inline |-> <<>>,
       bare |-> <<>>],
      TableRow(TextLine(<<"R1">>, TRUE, FALSE, <<>>), <<4000>>, <<>>),
      TableRow(TextLine(<<"1">>, TRUE, FALSE, <<>>), <<>>, <<2000>>),
      TableRow(TextLine(<<"ga">>, TRUE, FALSE, <<>>), <<>>, <<>>),
      TableRow(TextLine(<<>>, FALSE, FALSE, <<>>), <<>>, <<>>),
      TableRow(TextLine(<<>>, FALSE, FALSE, <<>>), <<>>, <<1200>>) }

\* the rubric texts that come with the grids
TableTextPool ==
    { << ProblemLine(<<"1">>, <<12000>>) >>,
      << ProblemLine(<<"1">>, <<12000>>), TextLine(<<"R1">>, TRUE, FALSE, <<4000>>) >>,
      << TextLine(<<>>, FALSE, FALSE, <<800>>) >> }

\* a rubric upload with table grids of up to MaxRows rows
InitTable ==
    /\ lines \in TableTextPool
    /\ tables \in SeqsUpTo(RowPool, MaxRows)
    /\ rubric = <<>>
    /\ pc = "start"
    /\ heap = <<>>
    /\ base_result = NoResult
    /\ llm_results = <<>>
    /\ final_result = NoResult
    /\ base0 = <<>>
    /\ parsed0 = <<>>
    /\ removed = <<>>
    /\ NoAnswer
    /\ NoBatch

NextTable ==
    \/ ParseTableSections
    \/ ParseRubric

SpecTable == InitTable /\ [][NextTable]_vars

\* the outline of every rubric text of up to MaxLines lines
InitParse ==
    /\ lines \in SeqsUpTo(LinePool, MaxLines)
    /\ rubric = <<>>
    /\ pc = "start"
    /\ heap = <<>>
    /\ base_result = NoResult
    /\ llm_results = <<>>
    /\ final_result = NoResult
    /\ base0 = <<>>
    /\ parsed0 = <<>>
    /\ removed = <<>>
    /\ tables = <<>>
    /\ NoAnswer
    /\ NoBatch

NextParse == ParseRubric

SpecParse == InitParse /\ [][NextParse]_vars

-----------------------------------------------------------------------------
(* Claims                                                                  *)

\* the ScoreDetails of the final result
FinalDetails == Deref(heap, final_result)

\* merge_llm_results has returned
Merged == pc = "done" /\ llm_results # <<>>

\* the entry of llm_results merge applies to a ScoreDetail, as an index (0: none)
AppliedEntry(section_id) ==
    LET hits == { j \in 1..Len(llm_results) : llm_results[j].section_id = section_id }
    IN  IF hits = {} THEN 0 ELSE CHOOSE j \in hits : \A i \in hits : i <= j

C2_PenaltiesWithinPoints ==
    Merged =>
        \A k \in 1..Len(FinalDetails) :
            LET d == FinalDetails[k]
            IN  /\ \A n \in 1..Len(d.deductions) : d.deductions[n].penalty >= 0
                /\ PenaltySum(d.deductions) <= d.max_points

\* the judgment of a merged detail is Missing or not written
NotWritten(d) ==
    /\ d.llm # <<>>
    /\ \/ d.llm[1].writing_status = <<"Missing">>
       \/ d.llm[1].is_written = <<"false">>

(* C3 (as claimed): a judgment that is Missing or has isWritten false     *)
(* yields score 0 and the single deduction 'not written' with penalty      *)
(* maxPoints (no entry when maxPoints is 0).                               *)
C3_NotWrittenPenaltyIsPoints ==
    Merged =>
        \A k \in 1..Len(FinalDetails) :
            LET d == FinalDetails[k]
            IN  NotWritten(d) =>
                    /\ d.score = 0
                    /\ d.deductions =
                          IF d.max_points = 0 THEN <<>>
                          ELSE << [reason |-> "not_written", penalty |-> d.max_points] >>

\* x is the half point nearest to value (the even one of two equally near)
NearestHalf(x, value) ==
    /\ x % (Unit \div 2) = 0
    /\ 2 * (x - value) <= Unit \div 2
    /\ 2 * (value - x) <= Unit \div 2
    /\ (2 * (x - value) = Unit \div 2 \/ 2 * (value - x) = Unit \div 2) => x % Unit = 0

(* C3 (amended): a judgment that is Missing or has isWritten false yields *)
(* score 0 whatever raw score and deductions were supplied, and its        *)
(* deductions become the single entry 'not written' whose penalty is       *)
(* maxPoints rounded to the nearest half point (no entry when that is 0).  *)
C3_NotWrittenForcesZero ==
    Merged =>
        \A k \in 1..Len(FinalDetails) :
            LET d == FinalDetails[k]
            IN  NotWritten(d) =>
                    /\ d.score = 0
                    /\ \/ d.deductions = <<>> /\ NearestHalf(0, d.max_points)
                       \/ /\ Len(d.deductions) = 1
                          /\ d.deductions[1].reason = "not_written"
                          /\ d.deductions[1].penalty > 0
                          /\ NearestHalf(d.deductions[1].penalty, d.max_points)

\* a Missing judgment that supplied a positive score and deductions of its own
C3_Witness ==
    /\ Merged
    /\ \E k \in 1..Len(FinalDetails) :
          /\ NotWritten(FinalDetails[k])
          /\ FinalDetails[k].deductions # <<>>
          /\ parsed0[AppliedEntry(FinalDetails[k].section_id)].score = <<3600>>
          /\ Get(parsed0[AppliedEntry(FinalDetails[k].section_id)].deductions, <<>>) # <<>>

\* some entry of llm_results carries the section id
Judged(section_id) == \E j \in 1..Len(llm_results) : llm_results[j].section_id = section_id

(* C4: merge_llm_results passes through unchanged every baseline          *)
(* ScoreDetail whose sectionId matches no judgment; with an empty judgment *)
(* list the returned scoreDetails equal the baseline's and isAmbiguous is  *)
(* the baseline's, and the merge does not fail for want of judgments.      *)
C4_UnmatchedPassThrough ==
    /\ (pc = "judged" /\ \E k \in 1..Len(base0) : ~ Judged(base0[k].section_id))
          => ~ MergeRaises(Deref(heap, base_result), llm_results)
    /\ pc = "done" =>
          /\ Len(final_result.score_details) = Len(base0)
          /\ \A k \in 1..Len(base0) :
                ~ Judged(base0[k].section_id) => FinalDetails[k] = base0[k]
          /\ llm_results = <<>> =>
                /\ FinalDetails = base0
                /\ final_result.is_ambiguous = base_result.is_ambiguous

\* a merged result with one detail updated by a judgment and one passed through
C4_Witness ==
    /\ Merged
    /\ \E k \in 1..Len(base0) : ~ Judged(base0[k].section_id)
    /\ \E k \in 1..Len(base0) : FinalDetails[k] # base0[k]

\* the totals the claim publishes: over the details marked leaf, or over all
\* details when none is marked leaf
ClaimedTotals(score_details) ==
    LET marked == SelectSeq(score_details, LAMBDA d : d.is_leaf)
        counted == IF marked = <<>> THEN score_details ELSE marked
    IN  [ total_score |-> Round2(SumSeq([k \in 1..Len(counted) |-> counted[k].score])),
          total_max   |-> Round2(SumSeq([k \in 1..Len(counted) |-> counted[k].max_points])) ]

NoteTotals(note) == [total_score |-> note.total_score, total_max |-> note.total_max]

(* C5: the total score/max published in humanNote by grade_basic and by   *)
(* merge_llm_results equals the sum of score/maxPoints over the            *)
(* scoreDetails with isLeaf true, or over all scoreDetails when none of    *)
(* them is marked leaf.                                                    *)
C5_NoteTotalsAreLeafSums ==
    /\ pc = "graded" =>
          NoteTotals(base_result.human_note) = ClaimedTotals(Deref(heap, base_result))
    /\ pc = "done" =>
          NoteTotals(final_result.human_note) = ClaimedTotals(FinalDetails)

\* another id of ids extends id by "." and more
ExtendedByAnother(id, ids) ==
    \E other \in ids \ {id} :
        /\ Len(other) > Len(id)
        /\ \A n \in 1..Len(id) : other[n] = id[n]
        /\ other[Len(id) + 1] = Dot

RubricIds == { rubric[i].id : i \in 1..Len(rubric) }

(* C6: is_leaf_section(id, list) is true iff no other section's id starts *)
(* with id + "."; the isLeaf flag grade_basic freezes on each ScoreDetail  *)
(* equals that value over the same section list, whatever the order of the *)
(* sections.                                                               *)
C6_LeafIffNoChild ==
    /\ \A i \in 1..Len(rubric) :
          is_leaf_section(rubric[i].id, rubric) = ~ ExtendedByAnother(rubric[i].id, RubricIds)
    /\ pc # "start" =>
          \A k \in 1..Len(base0) :
              base0[k].is_leaf = ~ ExtendedByAnother(base0[k].section_id, RubricIds)

\* a baseline with a parent whose only child carries no points, listed first
C6_Witness ==
    /\ pc = "graded"
    /\ Len(rubric) = 2
    /\ rubric[1].points = <<>>
    /\ StartsWith(rubric[1].id, rubric[2].id \o <<Dot>>)
    /\ Len(base0) = 1
    /\ ~ base0[1].is_leaf

\* the section a removal took out of the list
RemovedSection == removed[1].before[removed[1].index]

(* C7 (as claimed): removing a leaf section from the list never changes   *)
(* the leaf status of any other section in the list.                       *)
C7_RemovalKeepsEveryStatus ==
    removed # <<>> =>
        \A i \in 1..Len(rubric) :
            is_leaf_section(rubric[i].id, rubric)
                = is_leaf_section(rubric[i].id, removed[1].before)

\* id is an ancestor of descendant: descendant extends id by "." and more
Ancestor(id, descendant) ==
    /\ Len(descendant) > Len(id)
    /\ \A n \in 1..Len(id) : descendant[n] = id[n]
    /\ descendant[Len(id) + 1] = Dot

(* C7 (amended): removing a leaf section from the list never changes the  *)
(* leaf status of any other section that is not an ancestor of the removed *)
(* section (its id + "." does not start the removed id), and never turns a *)
(* leaf into a non-leaf.                                                   *)
C7_RemovalKeepsNonAncestors ==
    removed # <<>> =>
        \A i \in 1..Len(rubric) :
            /\ ~ Ancestor(rubric[i].id, RemovedSection.id) =>
                  is_leaf_section(rubric[i].id, rubric)
                      = is_leaf_section(rubric[i].id, removed[1].before)
            /\ is_leaf_section(rubric[i].id, removed[1].before)
                  => is_leaf_section(rubric[i].id, rubric)

\* a leaf was removed beside a parent that keeps its child and an id that only
\* shares the removed id's leading characters
C7_Witness ==
    /\ removed # <<>>
    /\ \E i \in 1..Len(rubric) :
          /\ ~ is_leaf_section(rubric[i].id, rubric)
          /\ ~ Ancestor(rubric[i].id, RemovedSection.id)
    /\ \E i \in 1..Len(rubric) :
          /\ StartsWith(RemovedSection.id, rubric[i].id)
          /\ rubric[i].id # RemovedSection.id
          /\ ~ Ancestor(rubric[i].id, RemovedSection.id)

(* C8: merge_llm_results does not mutate its baseline argument: after the *)
(* call every ScoreDetail record of the baseline result still has its      *)
(* baseline score, deductions and fields, and the returned scoreDetails    *)
(* are new records.                                                        *)
C8_BaselineNotMutated ==
    Merged =>
        /\ Deref(heap, base_result) = base0
        /\ \A k \in 1..Len(final_result.score_details) :
              \A n \in 1..Len(base_result.score_details) :
                  final_result.score_details[k] # base_result.score_details[n]

(* C9: the isAmbiguous flag merge_llm_results returns is true iff the     *)
(* baseline's flag was true or some judgment matched to a baseline section *)
(* carries isAmbiguous true; the merge never resets it from true to false. *)
C9_AmbiguousIsMonotonicOr ==
    pc = "done" =>
        /\ final_result.is_ambiguous
              = ( \/ base_result.is_ambiguous
                  \/ \E k \in 1..Len(base0) :
                        LET j == AppliedEntry(base0[k].section_id)
                        IN  j # 0 /\ llm_results[j].llm_result.is_ambiguous = <<TRUE>> )
        /\ base_result.is_ambiguous => final_result.is_ambiguous

\* a merge that raised the flag, beside a judgment that says not ambiguous
C9_Witness ==
    /\ Merged
    /\ ~ base_result.is_ambiguous
    /\ final_result.is_ambiguous
    /\ \E j \in 1..Len(llm_results) : llm_results[j].llm_result.is_ambiguous = <<FALSE>>

(* C10: when the reply item for a section is no judgment-shaped record    *)
(* (null, a string, a list), the merge completes without raising and the   *)
(* section receives the fallback judgment: score 0, no deductions,         *)
(* isAmbiguous true, note 'parse error'.                                   *)
C10_MalformedItemFallsBack ==
    /\ \A j \in 1..Len(llm_results) :
          parsed0[j].kind # "dict" =>
              /\ llm_results[j].llm_result.score = <<0>>
              /\ llm_results[j].llm_result.deductions = << <<>> >>
              /\ llm_results[j].llm_result.is_ambiguous = <<TRUE>>
              /\ llm_results[j].llm_result.note = << <<"parse_error">> >>
    /\ (pc = "judged" /\ \E j \in 1..Len(parsed0) : parsed0[j].kind # "dict")
          => ~ MergeRaises(Deref(heap, base_result), llm_results)
    /\ pc = "done" =>
          \A k \in 1..Len(base0) :
              LET j == AppliedEntry(base0[k].section_id)
              IN  (j # 0 /\ parsed0[j].kind # "dict") =>
                      /\ FinalDetails[k].score = 0
                      /\ FinalDetails[k].deductions = <<>>
                      /\ FinalDetails[k].llm = << llm_results[j].llm_result >>
                      /\ final_result.is_ambiguous

\* a merged result whose only judgment came from a reply item that was a list
C10_Witness ==
    /\ Merged
    /\ Len(parsed0) = 1
    /\ parsed0[1].kind = "list"
    /\ ~ base_result.is_ambiguous
    /\ final_result.is_ambiguous

\* the judgment with its score read as the number 0
ScoreReadAsZero(parsed) == [parsed EXCEPT !.score = <<0>>, !.score_json = "number"]

(* C11: every numeric coercion of points, score and penalty in baseline   *)
(* grading, judgment post-processing and merge fails soft: an unparsable,  *)
(* missing or null value is treated as 0 and no operation raises because   *)
(* of it.                                                                  *)
C11_CoercionsFailSoft ==
    /\ pc # "raised"
    /\ pc \in {"judged", "done"} =>
          \A k \in 1..Len(llm_results) :
              (parsed0[k].kind = "dict"
                 /\ (parsed0[k].score = <<>> \/ parsed0[k].score_json # "number"))
              => llm_results[k].llm_result = LlmResult(ScoreReadAsZero(parsed0[k]), rubric[1])

\* a run over one section of 10 points has judged reply item parsed0[1]
JudgedTenPoints ==
    /\ pc \in {"judged", "done"}
    /\ Len(rubric) = 1 /\ rubric[1].points = <<4000>>
    /\ Len(llm_results) = 1 /\ parsed0[1].kind = "dict"

\* the reply item is {writingStatus Full, score 9, no deductions} with evidence ev
FullNineWith(ev) ==
    /\ parsed0[1].writing_status = <<"Full">>
    /\ parsed0[1].is_written = <<>>
    /\ parsed0[1].score = <<3600>>
    /\ Get(parsed0[1].deductions, <<>>) = <<>>
    /\ parsed0[1].evidence = <<ev>>

\* the judgment came out with this score and these deductions
Reconciled(score, deductions) ==
    /\ llm_results[1].llm_result.score = <<score>>
    /\ llm_results[1].llm_result.deductions = <<deductions>>

CriteriaDeduction(penalty) == [reason |-> "criteria", penalty |-> penalty]

(* C12 (as claimed): for maxPoints 10 and a judgment Full, score 9, no     *)
(* deductions and one evidence string of 30 or more characters found       *)
(* verbatim in the student text, reconciliation yields score 9 and exactly *)
(* one deduction, the synthesized criteria-based one with penalty 1.       *)
C12_OneLongEvidenceGivesNine ==
    (JudgedTenPoints /\ FullNineWith(EvidenceFound1))
        => Reconciled(3600, << CriteriaDeduction(400) >>)

(* C12 (amended): for maxPoints 10 and a judgment Full, score 9, no        *)
(* deductions, reconciliation yields score 9 and exactly one deduction     *)
(* (criteria-based, penalty 1) when the evidence found in the student text *)
(* is two strings of 20 characters, or one string of 30 or more characters *)
(* in a conclusion section; one such string in any other section is cut to *)
(* 25 characters, below the threshold of 30, and yields score 5 with the   *)
(* deductions criteria-based 1 and insufficient evidence 4.                *)
C12_ValidEvidenceGivesNine ==
    JudgedTenPoints =>
        /\ FullNineWith(EvidenceFound2) => Reconciled(3600, << CriteriaDeduction(400) >>)
        /\ (FullNineWith(EvidenceFound1) /\ is_conclusion_section(rubric[1]))
              => Reconciled(3600, << CriteriaDeduction(400) >>)
        /\ (FullNineWith(EvidenceFound1) /\ ~ is_conclusion_section(rubric[1]))
              => Reconciled(2000, << CriteriaDeduction(400),
                                     [reason |-> "evidence", penalty |-> 1600] >>)

\* the claimed judgment, one evidence string of 40 characters, was reconciled
\* for a section that is no conclusion section
C12_Witness ==
    /\ JudgedTenPoints
    /\ FullNineWith(EvidenceFound1)
    /\ ~ is_conclusion_section(rubric[1])
    /\ llm_results[1].llm_result.evidence = << SentinelEvidence >>

(* C13: for maxPoints 10 and a judgment with writingStatus Incomplete,     *)
(* score 8 and no deductions, reconciliation yields final score 3 (the     *)
(* 0.3 x 10 cap) and a deduction list that includes an 'incomplete         *)
(* reasoning' entry with penalty 5.                                        *)
C13_IncompleteEightGivesThree ==
    ( /\ JudgedTenPoints
      /\ parsed0[1].writing_status = <<"Incomplete">>
      /\ parsed0[1].is_written = <<>>
      /\ parsed0[1].score = <<3200>>
      /\ Get(parsed0[1].deductions, <<>>) = <<>> )
    => /\ llm_results[1].llm_result.score = <<1200>>
       /\ \E k \in 1..Len(llm_results[1].llm_result.deductions[1]) :
             llm_results[1].llm_result.deductions[1][k]
                 = [reason |-> "incomplete", penalty |-> 2000]

\* the rubric text of the example, line by line
ExampleLines ==
    << ProblemLine(<<"1">>, <<12000>>),
       TextLine(<<"R1">>, TRUE, FALSE, <<4000>>),
       TextLine(<<"1">>, TRUE, FALSE, <<>>),
       TextLine(<<"ga">>, TRUE, FALSE, <<1600>>) >>

(* C14: parsing the rubric lines '[문제 1.에 관하여] (30점)',              *)
(* 'Ⅰ. 문제의 제기 (10점)', '1. 사실관계 검토', '가. 요건 (4점)' in this     *)
(* order yields exactly the sections 1.I (points 10), 1.I.1 (points None)  *)
(* and 1.I.1.가 (points 4); 1.I and 1.I.1 are not leaves and 1.I.1.가 is a *)
(* leaf.                                                                   *)
C14_ExampleOutline ==
    (pc = "parsed" /\ lines = ExampleLines) =>
        /\ Len(rubric) = 3
        /\ rubric[1].id = Id_1_I /\ rubric[1].points = <<4000>>
        /\ rubric[2].id = Id_1_I_1 /\ rubric[2].points = <<>>
        /\ rubric[3].id = <<"1", Dot, "I", Dot, "1", Dot, "ga">>
        /\ rubric[3].points = <<1600>>
        /\ ~ is_leaf_section(rubric[1].id, rubric)
        /\ ~ is_leaf_section(rubric[2].id, rubric)
        /\ is_leaf_section(rubric[3].id, rubric)

\* the example text has been parsed
C14_Witness == pc = "parsed" /\ lines = ExampleLines /\ Len(rubric) = 3

\* the problem heading a line belongs to, as a line index (0: none yet)
ProblemOf(i) ==
    LET starts == { j \in 1..i : lines[j].kind = "problem" }
    IN  IF starts = {} THEN 0 ELSE CHOOSE j \in starts : \A k \in starts : k <= j

\* the lines that are headings inside a problem
HeadingLines ==
    { i \in 1..Len(lines) :
        /\ lines[i].kind = "text"
        /\ ProblemOf(i) # 0
        /\ detect_heading(lines[i]).level # 0 }

LevelOf(i) == detect_heading(lines[i]).level

\* the section emitted for heading line i
SectionOf(i) == rubric[Cardinality({ j \in HeadingLines : j <= i })]

\* the most recent heading before line i, in the same problem, of a lower level
\* (0: none)
EnclosingHeading(i) ==
    LET lower == { j \in HeadingLines :
                     j < i /\ ProblemOf(j) = ProblemOf(i) /\ LevelOf(j) < LevelOf(i) }
    IN  IF lower = {} THEN 0 ELSE CHOOSE j \in lower : \A k \in lower : k <= j

\* the number of "."-separated parts of an id
Parts(id) == 1 + Cardinality({ n \in 1..Len(id) : id[n] = Dot })

(* C17: in parse_rubric_v2, for every heading at level L inside problem N, *)
(* the emitted section id equals P + "." + label, where P is the id of the *)
(* most recent preceding section of the same problem whose level is < L    *)
(* (or N when there is none), also when a level is skipped; a heading at   *)
(* level L carries no label of a level > L, so its id has at most L labels *)
(* after the problem number, and so have the ids built on it.              *)
C17_IdIsEnclosingIdPlusLabel ==
    pc = "parsed" =>
        /\ Len(rubric) = Cardinality(HeadingLines)
        /\ \A i \in HeadingLines :
              LET heading == detect_heading(lines[i])
                  outer   == EnclosingHeading(i)
                  P       == IF outer = 0 THEN lines[ProblemOf(i)].num
                             ELSE SectionOf(outer).id
              IN  /\ SectionOf(i).id = P \o <<Dot>> \o heading.label
                  /\ SectionOf(i).level = heading.level
                  /\ Parts(SectionOf(i).id) <= 1 + heading.level

\* a level-3 heading directly under a level-1 heading, then a level-2 heading
\* that takes its place: 1.I, 1.I.가, 1.I.1
C17_Witness ==
    /\ pc = "parsed"
    /\ Len(rubric) = 3
    /\ rubric[1].id = Id_1_I
    /\ rubric[2].level = 3 /\ rubric[2].id = <<"1", Dot, "I", Dot, "ga">>
    /\ rubric[3].level = 2 /\ rubric[3].id = Id_1_I_1

\* the rubric has a section of this id with points > 0, and no other id of the
\* rubric extends the id
ScoredLeaf(section_id) ==
    /\ \E i \in 1..Len(rubric) :
          /\ rubric[i].id = section_id
          /\ rubric[i].points # <<>>
          /\ rubric[i].points[1] > 0
    /\ ~ ExtendedByAnother(section_id, RubricIds)

(* C15: in a hybrid grading run (grade_basic, grade_with_gemini and       *)
(* merge_llm_results over the same rubric) judgments are produced only for *)
(* sections that are leaves with points present and > 0, so in the final   *)
(* result every ScoreDetail with isLeaf false still has score 0 and empty  *)
(* deductions.                                                             *)
C15_OnlyScoredLeavesAreJudged ==
    /\ pc \in {"judged", "done"} =>
          \A j \in 1..Len(llm_results) : ScoredLeaf(llm_results[j].section_id)
    /\ pc = "done" =>
          \A k \in 1..Len(FinalDetails) :
              ~ FinalDetails[k].is_leaf =>
                  /\ FinalDetails[k].score = 0
                  /\ FinalDetails[k].deductions = <<>>

\* a merged result with a parent that carries points and a judged child
C15_Witness ==
    /\ Merged
    /\ \E k \in 1..Len(FinalDetails) :
          ~ FinalDetails[k].is_leaf /\ FinalDetails[k].max_points > 0
    /\ \E k \in 1..Len(FinalDetails) :
          FinalDetails[k].is_leaf /\ FinalDetails[k].score > 0

\* the section judgment k was made for
JudgedSection(k) ==
    CHOOSE sec \in { rubric[i] : i \in 1..Len(rubric) } :
        sec.id = llm_results[k].section_id /\ is_llm_relevant_section(sec, rubric)

\* the judgment as it enters _normalize_deductions_and_score
Prepared(parsed, section) ==
    PreCapIncomplete(CheckEvidence(ForceNotWritten(parsed, section), section), section)

Written(parsed) ==
    parsed.writing_status # <<"Missing">> /\ parsed.is_written # <<"false">>

\* the reasons of the deductions the status caps append
CapReasons == {"incomplete", "evidence"}

\* the amount a status cap removed from the score of a normalized judgment
RemovedByCap(out) ==
    LET deductions == out.deductions[1]
    IN  IF deductions # <<>> /\ deductions[Len(deductions)].reason \in CapReasons
        THEN deductions[Len(deductions)].penalty
        ELSE 0

\* judgment k is written and supplies a score and deductions, and its score
\* before the status caps is min(candidate, maxPoints - min(sum, maxPoints))
\* for the maxPoints this operator is given
ScoreIsMinOfCandidateAndPenalty(k, section, maxPoints) ==
    LET parsed  == Prepared(parsed0[k], section)
        raw     == Get(parsed.deductions, <<>>)
        out     == llm_results[k].llm_result
        candidate == RoundToHalf(Max(0, Min(maxPoints, parsed.score[1])))
        penalties == SumSeq([n \in 1..Len(raw) |-> RoundToHalf(Max(0, raw[n].penalty))])
    IN  (/\ parsed0[k].kind = "dict"
         /\ Written(parsed)
         /\ parsed.score # <<>>
         /\ raw # <<>>)
            => out.score[1] + RemovedByCap(out)
                  = Min(candidate, maxPoints - Min(penalties, maxPoints))

(* C18: for a written judgment that supplies deductions, the final score  *)
(* before status caps equals min(candidate, maxPoints - min(sum of         *)
(* penalties, maxPoints)), where maxPoints is the section's points,        *)
(* candidate is the raw score clamped to [0, maxPoints] and rounded to the *)
(* nearest half point and each penalty is floored at 0 and rounded to the  *)
(* nearest half point.                                                     *)
C18_ScoreFromSectionPoints ==
    pc = "judged" =>
        \A k \in 1..Len(parsed0) :
            ScoreIsMinOfCandidateAndPenalty(k, JudgedSection(k), JudgedSection(k).points[1])

(* C18 (amended): the same with maxPoints the section's points rounded to *)
(* the nearest half point.                                                 *)
C18_ScoreIsMinOfCandidateAndPenalty ==
    pc = "judged" =>
        \A k \in 1..Len(parsed0) :
            ScoreIsMinOfCandidateAndPenalty(k, JudgedSection(k),
                                            RoundToHalf(JudgedSection(k).points[1]))

\* 10 points, Full with valid evidence, score 9 and deductions of 1 and 8: the
\* score is 10 - 9 = 1
C18_Witness ==
    /\ pc = "judged"
    /\ Len(parsed0) = 1
    /\ parsed0[1].kind = "dict"
    /\ rubric[1].points = <<4000>>
    /\ parsed0[1].writing_status = <<"Full">>
    /\ parsed0[1].score = <<3600>>
    /\ parsed0[1].deductions = << <<LlmDeduction(400), LlmDeduction(3200)>> >>
    /\ EvidenceIsValid(parsed0[1], rubric[1])
    /\ llm_results[1].llm_result.score = <<400>>

\* the score judgment k would get from its score and deductions alone, without
\* the steps that belong to its writing status and its evidence
UncappedScore(k, section) ==
    normalize_deductions_and_score(
        [parsed0[k] EXCEPT !.writing_status = <<"Full">>], section, TRUE).score[1]

\* the answer is written for grade_with_gemini: is_written is true or absent and
\* the status is not Missing
WrittenAnswer(parsed) ==
    Get(parsed.is_written, "true") = "true" /\ parsed.writing_status # <<"Missing">>

\* the cap deduction of this reason is the last deduction and carries amount
CapRecorded(out, reason, amount) ==
    LET deductions == out.deductions[1]
    IN  /\ deductions # <<>>
        /\ deductions[Len(deductions)] = [reason |-> reason, penalty |-> amount]

\* no deduction of the result has this reason
NoDeduction(out, reason) ==
    \A n \in 1..Len(out.deductions[1]) : out.deductions[1][n].reason # reason

(* C19: for every written judgment with writingStatus Incomplete and every *)
(* maxPoints, the final score is at most 0.3 x maxPoints, and whenever the *)
(* cap lowers the score of a judgment that supplied deductions the removed *)
(* amount is appended as an 'incomplete reasoning' deduction whose penalty *)
(* equals the amount removed.                                              *)
C19_IncompleteCappedAtThreeTenths ==
    pc = "judged" =>
        \A k \in 1..Len(parsed0) :
            LET section   == JudgedSection(k)
                out       == llm_results[k].llm_result
                maxPoints == RoundToHalf(section.points[1])
            IN  (/\ parsed0[k].kind = "dict"
                 /\ WrittenAnswer(parsed0[k])
                 /\ parsed0[k].writing_status = <<"Incomplete">>)
                    => /\ RatioDen * out.score[1] <= INCOMPLETE_CAP_RATIO * maxPoints
                       /\ (/\ Get(parsed0[k].deductions, <<>>) # <<>>
                           /\ parsed0[k].score # <<>>
                           /\ out.score[1] < UncappedScore(k, section))
                              => CapRecorded(out, "incomplete",
                                             UncappedScore(k, section) - out.score[1])

(* C20: for every written judgment whose status is not Incomplete and     *)
(* whose evidence is invalid, the final score is at most 0.5 x maxPoints   *)
(* and the removed amount is appended as an 'insufficient evidence'        *)
(* deduction; the evidence cap is never applied to an Incomplete judgment, *)
(* and a judgment with valid evidence and status Full is not capped.       *)
C20_InvalidEvidenceCappedAtHalf ==
    pc = "judged" =>
        \A k \in 1..Len(parsed0) :
            LET section   == JudgedSection(k)
                out       == llm_results[k].llm_result
                maxPoints == RoundToHalf(section.points[1])
                valid     == EvidenceIsValid(parsed0[k], section)
                status    == parsed0[k].writing_status
            IN  (parsed0[k].kind = "dict" /\ WrittenAnswer(parsed0[k])) =>
                    /\ (status # <<"Incomplete">> /\ ~ valid) =>
                          /\ RatioDen * out.score[1] <= EVIDENCE_FAIL_CAP_RATIO * maxPoints
                          /\ out.score[1] < UncappedScore(k, section)
                                => CapRecorded(out, "evidence",
                                               UncappedScore(k, section) - out.score[1])
                    /\ status = <<"Incomplete">> => NoDeduction(out, "evidence")
                    /\ (status = <<"Full">> /\ valid) =>
                          /\ out.score[1] = UncappedScore(k, section)
                          /\ NoDeduction(out, "evidence")
                          /\ NoDeduction(out, "incomplete")

\* the positions of the sections whose points is not None
ScoredPositions == { i \in 1..Len(rubric) : rubric[i].points # <<>> }

\* the k-th of them
ScoredSection(k) ==
    rubric[CHOOSE i \in ScoredPositions :
               Cardinality({ j \in ScoredPositions : j <= i }) = k]

(* C21: grade_basic emits exactly one ScoreDetail per section whose       *)
(* points is not None, in section order, each with score 0, empty          *)
(* deductions and isLeaf computed from the full section list; a section    *)
(* with points None produces no ScoreDetail and is never touched by        *)
(* baseline or merge: the merged result has the same rows for the same     *)
(* sections.                                                               *)
C21_OneDetailPerScoredSection ==
    /\ pc # "start" =>
          /\ Len(base0) = Cardinality(ScoredPositions)
          /\ \A k \in 1..Len(base0) :
                /\ base0[k].section_id = ScoredSection(k).id
                /\ base0[k].max_points = ScoredSection(k).points[1]
                /\ base0[k].score = 0
                /\ base0[k].deductions = <<>>
                /\ base0[k].is_leaf = ~ ExtendedByAnother(ScoredSection(k).id, RubricIds)
    /\ pc = "graded" => Deref(heap, base_result) = base0
    /\ pc = "done" =>
          /\ Len(FinalDetails) = Cardinality(ScoredPositions)
          /\ \A k \in 1..Len(FinalDetails) :
                /\ FinalDetails[k].section_id = ScoredSection(k).id
                /\ FinalDetails[k].max_points = ScoredSection(k).points[1]
                /\ FinalDetails[k].is_leaf = base0[k].is_leaf

\* a merged run over a section without points followed by a judged leaf
C21_Witness ==
    /\ Merged
    /\ Len(rubric) = 2
    /\ rubric[1].points = <<>>
    /\ rubric[2].points = <<1000>>
    /\ Len(FinalDetails) = 1
    /\ FinalDetails[1].score > 0


-----------------------------------------------------------------------------
(* C22 *)

\* the positions of the problem headings of the answer
HeadingPositions == { i \in 1..Len(answer) : IsProblemHeading(answer[i]) }

\* the position of the next heading after h, or the end of the text
SegmentEnd(h) ==
    LET later == { i \in HeadingPositions : i > h }
    IN  IF later = {} THEN Len(answer) + 1
        ELSE CHOOSE i \in later : \A j \in later : i <= j

\* the lines from heading h up to the next heading: the heading line, its
\* trailing text, the lines that follow, without the blank lines at the ends
SegmentOf(h) ==
    StripBlankLines(<<answer[h]>>
                    \o (IF Tail(answer[h]) # <<>> THEN <<Tail(answer[h])>> ELSE <<>>)
                    \o SubSeq(answer, h + 1, SegmentEnd(h) - 1))

ContainsRun(content, run) ==
    \E a \in 0..(Len(content) - Len(run)) : SubSeq(content, a + 1, a + Len(run)) = run

NumberAt(h) == MarkerNum(answer[h][1])

\* every heading's lines are in the chunk keyed by its number, and a chunk
\* holds nothing but such lines
ChunksHoldEverySegment ==
    /\ \A h \in HeadingPositions :
          \E k \in 1..Len(chunks) :
              /\ chunks[k].num = NumberAt(h)
              /\ ContainsRun(chunks[k].content, SegmentOf(h))
    /\ \A k \in 1..Len(chunks) :
          \A n \in 1..Len(chunks[k].content) :
              \E h \in HeadingPositions :
                  /\ NumberAt(h) = chunks[k].num
                  /\ \E m \in 1..Len(SegmentOf(h)) : SegmentOf(h)[m] = chunks[k].content[n]
    /\ \A k \in 1..Len(chunks) : IsProblemHeading(chunks[k].content[1])

\* C22: split_by_problem_headings assigns every line at or after the first
\* problem heading to the chunk keyed by the number of the nearest preceding
\* heading, heading line and trailing text included, and no line before the
\* first heading appears in a chunk, for any sequence of headings, headings
\* whose number repeats included.
C22_EveryLineInItsChunk == pc = "split" => ChunksHoldEverySegment

NumbersRepeat ==
    \E h, g \in HeadingPositions : h # g /\ NumberAt(h) = NumberAt(g)

\* C22, the part that holds: when no problem number repeats, every chunk is
\* exactly the lines from its heading to the next one.
C22_DistinctNumbersSplitExactly ==
    (pc = "split" /\ ~ NumbersRepeat) =>
        /\ ChunksHoldEverySegment
        /\ Len(chunks) = Cardinality(HeadingPositions)
        /\ \A h \in HeadingPositions :
              \E k \in 1..Len(chunks) :
                  chunks[k].num = NumberAt(h) /\ chunks[k].content = SegmentOf(h)

C22_DistinctNumbersWitness ==
    /\ pc = "split"
    /\ answer = << <<"w">>, <<"P1", "w">>, <<"v">>, <<"P2">> >>
    /\ Len(chunks) = 2

-----------------------------------------------------------------------------
(* C30 *)

\* the stored answer is what normalize_answer_for_upload returned for the upload
StoredByUpload == pc = "stored" /\ runs = 0

\* C30: normalize_answer_for_upload is idempotent: applied to its own output
\* it returns the same text, for every text of heading lines, other lines and
\* blank lines; hence a run of normalize-all over stored answers that are
\* already normalized updates no answer.
C30_NormalizeForUploadIsIdempotent ==
    /\ StoredByUpload => normalize_answer_for_upload(answer) = answer
    /\ (pc = "stored" /\ runs >= 1) => updated_answers = 0

\* C30, the part about the operation alone: a run of normalize-all over
\* answers stored by the upload updates none of them.
C30_RunOverUploadedUpdatesNothing ==
    (pc = "stored" /\ runs = 1) => updated_answers = 0

\* C30, what does hold: the second of two runs updates nothing.
C30_SecondRunUpdatesNothing ==
    (pc = "stored" /\ runs = 2) => updated_answers = 0

-----------------------------------------------------------------------------
(* C23 *)

\* of the syllables written here, those among the 14 of the outline
\* (가, 나, 다, 라, 마, 바, 사, 아, 자, 차, 카, 타, 파, 하)
OutlineSyllables == {"ga", "na"}

\* the lines inside a problem that start with one of the 14 syllables and "."
OutlineSyllableLines ==
    { i \in 1..Len(lines) :
        /\ lines[i].kind = "text"
        /\ ProblemOf(i) # 0
        /\ Len(lines[i].marker) = 1
        /\ lines[i].marker[1] \in OutlineSyllables }

\* C23: the rubric heading classifier returns a level-3 heading only for a
\* line that starts with one of the 14 syllables followed by "."; a line that
\* starts with another Hangul syllable followed by "." is no heading and
\* opens no section.
C23_LevelThreeOnlyForOutlineSyllables ==
    pc = "parsed" =>
        /\ \A k \in 1..Len(rubric) :
              rubric[k].level = 3 =>
                  Len(rubric[k].label) = 1 /\ rubric[k].label[1] \in OutlineSyllables
        /\ Cardinality({ k \in 1..Len(rubric) : rubric[k].level = 3 })
              = Cardinality(OutlineSyllableLines)

-----------------------------------------------------------------------------
(* C24 *)

\* C24: every level-1 label the rubric heading classifier produces consists
\* only of the ASCII letters I, V, X: a Unicode Roman glyph, and a run of
\* several glyphs, is replaced by its ASCII equivalent before the label is
\* used in a section id.
C24_RomanLabelsAreAscii ==
    pc = "parsed" =>
        \A k \in 1..Len(rubric) :
            rubric[k].level = 1 =>
                /\ AllIn(rubric[k].label, AsciiRomans)
                /\ \A n \in 1..Len(rubric[k].id) : rubric[k].id[n] \notin UnicodeRomans

\* C24, the part that holds: a label that is a single Unicode glyph is
\* replaced by its ASCII equivalent.
C24_SingleGlyphLabelsAreAscii ==
    pc = "parsed" =>
        \A i \in HeadingLines :
            (LevelOf(i) = 1 /\ Len(lines[i].marker) = 1) =>
                /\ AllIn(SectionOf(i).label, AsciiRomans)
                /\ \A n \in 1..Len(SectionOf(i).id) :
                      SectionOf(i).id[n] \in UnicodeRomans =>
                          \E j \in HeadingLines :
                              j < i /\ Len(lines[j].marker) > 1
                              /\ AllIn(lines[j].marker, UnicodeRomans)

-----------------------------------------------------------------------------
(* C25 *)

\* the rows whose first cell is a heading
HeadingRows ==
    { i \in 1..Len(tables) :
        ~ tables[i].empty /\ detect_heading(tables[i].first).level # 0 }

\* the points of a heading row: the inline "(P점)", else the bare number
RowPoints(row) ==
    IF row.first.points # <<>> THEN row.first.points
    ELSE IF row.inline # <<>> THEN row.inline
    ELSE row.bare

\* the section of heading row i is in the rubric, with the row's label, level
\* and points
RowHasSection(i) ==
    \E k \in 1..Len(rubric) :
        /\ rubric[k].level = detect_heading(tables[i].first).level
        /\ rubric[k].label = detect_heading(tables[i].first).label
        /\ rubric[k].points = RowPoints(tables[i])

\* C25: the table-based rubric path emits, without raising, for every table
\* row whose first cell classifies as a heading a Section of the shape of the
\* prose path, with points the inline "(N점)" value if present, else the
\* first bare number of one or two digits in the remaining cells; and
\* parse_rubric uses this path when it is given table grids.
C25_TableRowsBecomeSections ==
    /\ pc # "raised"
    /\ pc = "tabled" =>
          /\ Len(rubric) = Cardinality(HeadingRows)
          /\ \A i \in HeadingRows : RowHasSection(i)
    /\ (pc = "parsed" /\ tables # <<>>) =>
          \A i \in HeadingRows : RowHasSection(i)

\* C25, second part alone: parse_rubric given grids with a heading row
\* returns that row's section.
C25_ParseRubricUsesTables ==
    (pc = "parsed" /\ tables # <<>>) => \A i \in HeadingRows : RowHasSection(i)

-----------------------------------------------------------------------------
(* C26 *)

\* the section_id the model wrote into reply item k
OwnSectionId(k) == parsed0[k].section_id

\* the items of the reply that came from the model
FromModel(k) == "section_id" \in DOMAIN parsed0[k]

\* C26: in grade_with_gemini each judgment the model returns for a batch is
\* applied to the rubric section whose id equals the judgment's own
\* section_id, whatever the order and number of the reply's items; a judgment
\* is never recorded under another section's id.
C26_JudgmentGoesToItsOwnSection ==
    /\ pc = "judged" =>
          \A k \in 1..Len(llm_results) :
              FromModel(k) => llm_results[k].section_id = OwnSectionId(k)
    /\ pc = "done" =>
          \A k \in 1..Len(FinalDetails) :
              (FinalDetails[k].llm # <<>> /\ "section_id" \in DOMAIN FinalDetails[k].llm[1])
                  => FinalDetails[k].llm[1].section_id = FinalDetails[k].section_id

\* a reply for the one batch of the rubric with its items in the batch's order,
\* each naming the section of its position
OrderedReply ==
    /\ Len(parsed0) = Len(TargetSections(rubric))
    /\ \A k \in 1..Len(parsed0) :
          /\ FromModel(k)
          /\ OwnSectionId(k) = TargetSections(rubric)[k].id
          /\ TargetSections(rubric)[k].problem_num = TargetSections(rubric)[1].problem_num

\* C26, the case of a well-behaved reply: items in the batch's order, each
\* naming the section of its position; then each is recorded under its own id.
C26_OrderedReplyGoesToItsOwnSection ==
    (pc = "judged" /\ OrderedReply) =>
        \A k \in 1..Len(llm_results) : llm_results[k].section_id = OwnSectionId(k)

-----------------------------------------------------------------------------
(* C27 *)

\* the reply list is the fallback built after the last failed attempt
FellBack ==
    /\ Len(parsed0) = Len(TargetSections(rubric))
    /\ \A k \in 1..Len(parsed0) : parsed0[k] = FailedItem(TargetSections(rubric)[k])

\* the loop is over
BatchDone == pc \in {"judged", "raised"}

C27_CallsAreBounded ==
    /\ calls <= retries + 1
    /\ pc = "calling" => (calls = attempt /\ attempt <= retries)
    /\ (BatchDone /\ calls > 0 /\ ~ FellBack) => calls = attempt + 1
    /\ (BatchDone /\ FellBack) =>
          /\ calls = retries + 1
          /\ pc = "judged"
          /\ Len(llm_results) = Len(TargetSections(rubric))
          /\ \A k \in 1..Len(llm_results) :
                /\ llm_results[k].section_id = TargetSections(rubric)[k].id
                /\ llm_results[k].llm_result.score = <<0>>
                /\ llm_results[k].llm_result.is_ambiguous = <<TRUE>>

\* C27: for each problem batch grade_with_gemini makes at most
\* LLM_RETRIES + 1 model calls and its retry loop always terminates: it stops
\* at the first reply that parses, and after the last failed attempt every
\* section of the batch receives a fallback judgment with score 0 that is
\* flagged isAmbiguous.
C27_RetryLoopIsBoundedAndEnds ==
    /\ []C27_CallsAreBounded
    /\ [][BatchDone => (calls' = calls /\ BatchDone')]_vars
    /\ <>BatchDone

\* every attempt of LLM_RETRIES = 2 failed: three calls, fallback judgments
C27_Witness ==
    /\ pc = "judged"
    /\ retries = 2
    /\ calls = 3
    /\ FellBack
    /\ Len(llm_results) = 2

-----------------------------------------------------------------------------
(* C28 *)

\* the evidence list of the reply item holds exactly one string that is not
\* the sentinel
OneNonSentinelString(parsed) ==
    /\ parsed.kind = "dict"
    /\ parsed.evidence # <<>>
    /\ Cardinality({ k \in 1..Len(parsed.evidence[1]) : ~ parsed.evidence[1][k].x }) = 1

\* the judgment came out as evidence-invalid: its evidence is ["X"]
CameOutInvalid(k) == llm_results[k].llm_result.evidence = << SentinelEvidence >>

\* C28: in grade_with_gemini a judgment whose evidence list holds exactly one
\* non-sentinel string is evidence-invalid for every section that is no
\* conclusion section, whatever the string's length and whether or not it
\* occurs in the student text: each string is cut to 25 characters before the
\* minimum of 30 is checked.
C28_OneStringIsNeverEnough ==
    pc = "judged" =>
        \A k \in 1..Len(llm_results) :
            (OneNonSentinelString(parsed0[k]) /\ ~ is_conclusion_section(JudgedSection(k)))
                => /\ ~ EvidenceIsValid(parsed0[k], JudgedSection(k))
                   /\ CameOutInvalid(k)

\* one string of MaxEvidenceLen characters found in the student text, for a
\* section that is no conclusion section, came out invalid
C28_Witness ==
    /\ pc = "judged"
    /\ Len(llm_results) = 1
    /\ parsed0[1].evidence = << << [len |-> MaxEvidenceLen, x |-> FALSE, found |-> TRUE] >> >>
    /\ ~ is_conclusion_section(rubric[1])
    /\ CameOutInvalid(1)

-----------------------------------------------------------------------------
(* C29 *)

\* the judgment supplies no deduction with a positive penalty
NoPositivePenalty(parsed) ==
    \A k \in 1..Len(Get(parsed.deductions, <<>>)) :
        Get(parsed.deductions, <<>>)[k].penalty <= 0

\* a cap lowered the score: its deduction is in the list
CapApplied(reason) ==
    \E k \in 1..Len(llm_results[1].llm_result.deductions[1]) :
        llm_results[1].llm_result.deductions[1][k].reason = reason

\* C29: when a judgment supplies no deduction with a positive penalty, the
\* deductions _normalize_deductions_and_score emits sum exactly to maxPoints
\* rounded to the half point minus the final score, for every writing status
\* and also after an Incomplete or insufficient-evidence cap.
C29_DeductionsSumToLostPoints ==
    (pc = "normalized" /\ NoPositivePenalty(parsed0[1])) =>
        PenaltySum(llm_results[1].llm_result.deductions[1])
            = RoundToHalf(Get(rubric[1].points, 0)) - llm_results[1].llm_result.score[1]

\* 10 points, Incomplete with score 9 and no deductions: score 3 after the
\* cap, deductions 1 and 6
C29_Witness ==
    /\ pc = "normalized"
    /\ rubric[1].points = <<4000>>
    /\ parsed0[1].score = <<3600>>
    /\ parsed0[1].deductions = <<>>
    /\ parsed0[1].writing_status = <<"Incomplete">>
    /\ llm_results[1].llm_result.score = <<1200>>
    /\ CapApplied("incomplete")
    /\ PenaltySum(llm_results[1].llm_result.deductions[1]) = 2800

====
